---- MODULE Spec2Model ----
(***************************************************************************)
(* footpath-map: the ingestion-to-mapping pipeline.                        *)
(*                                                                         *)
(*   Store            src/unnamed/part_005 (db.js with processing_status)  *)
(*   AiAnalysisService src/src/aiAnalysisService.js                        *)
(*   GeocodingService  src/src/twitterService.js (second module, l.189-)   *)
(*   IssueProcessor    src/src/issueProcessor.js                           *)
(*   triggers          src/src/server.js, src/unnamed/part_000             *)
(*                                                                         *)
(* One step of the model is one turn of the Node event loop: the code that *)
(* runs between two awaits.  Time (Date.now()) advances between turns.     *)
(* The two rate gates only delay a request; in this module a delay is the  *)
(* clock advancing between two turns.                                      *)
(***************************************************************************)
EXTENDS Integers, Sequences, FiniteSets, TLC

\* ------------------------------------------------------------------ bounds
\* Number of tweets of the upstream timeline (ids 1..NumPosts, oldest first).
NumPosts == 2
\* The clock stops advancing after MaxTicks ticks.
MaxTicks == 2

\* --------------------------------------------------------------- constants
\* One tick of the model clock, in milliseconds (one hour).
TickMs == 60 * 60 * 1000
\* aiAnalysisService.js:19  this.maxRetries = 3
maxRetries == 3
\* issueProcessor.js:39     db.getPendingPosts(10)
BatchLimit == 10
\* aiAnalysisService.js:194 Date.now() + (60 * 60 * 1000)
QuotaResetMs == 60 * 60 * 1000

PostIds == 1..NumPosts
\* The invocations of processQueue(): the continuous loop and the two HTTP
\* triggers (server.js:179, 125, 112), all through runProcessing().
Callers == {"loop", "process", "refresh"}
\* A client that calls the classifier itself, one call after the other
\* (aiAnalysisService.js:81-82 analyzeTweet, called by part_000:93 backfillAi).
Direct == "direct"
Invocations == Callers \cup {Direct}

\* null for a timestamp (quotaResetTime, lastCycleTime)
NoTime == -1

\* ----------------------------------------------------------------- strings
\* A JavaScript string is a sequence of one-character strings; null is NullStr.
NullStr == <<"<null>">>
sMGRoad == <<"M","G"," ","R","o","a","d">>
sBangalore == <<"B","a","n","g","a","l","o","r","e">>
sLowBangalore == <<"b","a","n","g","a","l","o","r","e">>
sLowBengaluru == <<"b","e","n","g","a","l","u","r","u">>
sLowNone == <<"n","o","n","e">>
sCommaBangalore == <<","," ">> \o sBangalore

\* String.prototype.toLowerCase, on the letters the model's strings use
ToLowerChar(ch) ==
    CASE ch = "B" -> "b"
      [] ch = "G" -> "g"
      [] ch = "M" -> "m"
      [] ch = "N" -> "n"
      [] ch = "R" -> "r"
      [] OTHER -> ch

ToLowerCase(s) == [i \in 1..Len(s) |-> ToLowerChar(s[i])]

\* String.prototype.includes
Includes(s, t) ==
    \E i \in 0..(Len(s) - Len(t)) : SubSeq(s, i + 1, i + Len(t)) = t

\* String.prototype.trim (spaces only)
RECURSIVE TrimLeft(_)
TrimLeft(s) ==
    IF s # <<>> /\ Head(s) = " " THEN TrimLeft(Tail(s)) ELSE s

RECURSIVE TrimRight(_)
TrimRight(s) ==
    IF s # <<>> /\ s[Len(s)] = " " THEN TrimRight(SubSeq(s, 1, Len(s) - 1)) ELSE s

Trim(s) == TrimRight(TrimLeft(s))

\* JavaScript truthiness of a string-or-null
Truthy(s) == s # NullStr /\ s # <<>>

\* --------------------------------------------------- AiAnalysisService (pure)
\* Error messages the upstream call fails with.
m429 == <<"4","2","9">>
mQuota == <<"q","u","o","t","a">>
mLimit0 == <<"4","2","9"," ","l","i","m","i","t",":"," ","0">>
mPerDay == <<"P","e","r","D","a","y","P","e","r","P","r","o","j","e","c","t">>
mExceeded == <<"e","x","c","e","e","d","e","d"," ","y","o","u","r"," ","c","u","r","r","e","n","t"," ","q","u","o","t","a">>
mTimeout == <<"t","i","m","e","o","u","t">>
ErrorMessages == {m429, mQuota, mLimit0, mPerDay, mExceeded, mTimeout}

\* A signature test that knows 'PerDayPerProject' only.
isDailyQuotaExhausted_perDayOnly(errorMessage) ==
    Includes(errorMessage, mPerDay)

\* aiAnalysisService.js:72-76
isDailyQuotaExhausted(errorMessage) ==
    \/ Includes(errorMessage, <<"l","i","m","i","t",":"," ","0">>)
    \/ Includes(errorMessage, mPerDay)
    \/ Includes(errorMessage, mExceeded)

\* aiAnalysisService.js:199, the test on the message
IsTransient(errorMsg) ==
    Includes(errorMsg, m429) \/ Includes(errorMsg, mQuota)

\* A retry condition that allows one retry more (<= for <).
ShouldRetry_oneMore(errorMsg, retryCount) ==
    IsTransient(errorMsg) /\ retryCount <= maxRetries

\* aiAnalysisService.js:199, the whole condition
ShouldRetry(errorMsg, retryCount) ==
    IsTransient(errorMsg) /\ retryCount < maxRetries

\* aiAnalysisService.js:163-173
SanitizeLocation(raw) ==
    IF ~Truthy(raw) THEN raw
    ELSE LET lc == ToLowerCase(raw) IN
         IF Includes(lc, sLowNone) \/ (Includes(lc, sLowBangalore) /\ Len(raw) < 12)
         THEN IF ToLowerCase(Trim(raw)) = sLowBangalore THEN NullStr ELSE raw
         ELSE IF ~Includes(lc, sLowBangalore) /\ ~Includes(lc, sLowBengaluru)
              THEN raw \o sCommaBangalore
              ELSE raw

\* Error messages that name a delay, or the word retry without one.
mRetryIn == <<"4","2","9"," ","r","e","t","r","y"," ","i","n"," ">>
mRetry7 == mRetryIn \o <<"7","s">>
mRetry7h == mRetryIn \o <<"7",".","5","s">>
mRetry17 == <<"q","u","o","t","a"," ","r","e","t","r","y","D","e","l","a","y",":","1","7","s">>
mRetryQ == mRetryIn \o <<"0",".","2","5"," ","s">>
mRetryNone == <<"4","2","9"," ","r","e","t","r","y"," ","l","a","t","e","r">>
DelayMessages == {m429, mQuota, mRetry7, mRetry7h, mRetry17, mRetryQ, mRetryNone}

Digits == <<"0","1","2","3","4","5","6","7","8","9">>
IsDigit(ch) == \E d \in 1..10 : Digits[d] = ch
DigitVal(ch) == (CHOOSE d \in 1..10 : Digits[d] = ch) - 1

\* The end of the run of digits that starts at p (p - 1 when msg[p] is no digit).
RECURSIVE DigitsEnd(_, _)
DigitsEnd(msg, p) ==
    IF p <= Len(msg) /\ IsDigit(msg[p]) THEN DigitsEnd(msg, p + 1) ELSE p - 1

RECURSIVE SpacesEnd(_, _)
SpacesEnd(msg, p) ==
    IF p <= Len(msg) /\ msg[p] = " " THEN SpacesEnd(msg, p + 1) ELSE p - 1

\* The value of the digits msg[a..b], 0 for none.
RECURSIVE IntOf(_, _, _)
IntOf(msg, a, b) ==
    IF a > b THEN 0 ELSE IntOf(msg, a, b - 1) * 10 + DigitVal(msg[b])

\* Math.ceil(0.f * 1000) for the fraction digits f = msg[a..b]
CeilMillis(msg, a, b) ==
    LET d(k) == IF a + k <= b THEN DigitVal(msg[a + k]) ELSE 0
        rest == \E j \in (a + 3)..b : DigitVal(msg[j]) # 0
    IN  d(0) * 100 + d(1) * 10 + d(2) + (IF rest THEN 1 ELSE 0)

\* (\d+(?:\.\d+)?)\s*s matched at p: the number in milliseconds, or -1
NumberAt(msg, p) ==
    LET ie == DigitsEnd(msg, p)
        hasFrac == /\ ie + 2 <= Len(msg) /\ msg[ie + 1] = "." /\ IsDigit(msg[ie + 2])
        fe == IF hasFrac THEN DigitsEnd(msg, ie + 2) ELSE ie
        se == SpacesEnd(msg, fe + 1)
    IN  IF ie >= p /\ se + 1 <= Len(msg) /\ ToLowerChar(msg[se + 1]) = "s"
        THEN IntOf(msg, p, ie) * 1000
               + (IF hasFrac THEN CeilMillis(msg, ie + 2, fe) ELSE 0)
        ELSE 0 - 1

\* A delay computation that ignores the message and the attempt.
RetryDelay_fixed(errorMsg, retryCount) == 10000

\* aiAnalysisService.js:60-67  /retry.*?(\d+(?:\.\d+)?)\s*s/i : after the first
\* "retry", the first place where a number followed by s is read; null is 0
parseRetryDelay(errorMessage) ==
    LET lc == ToLowerCase(errorMessage)
        word == <<"r","e","t","r","y">>
        starts == {i \in 1..(Len(lc) - 4) : SubSeq(lc, i, i + 4) = word}
    IN  IF starts = {} THEN 0
        ELSE LET r == CHOOSE i \in starts : \A j \in starts : i <= j
                 ps == {q \in (r + 5)..Len(lc) : NumberAt(errorMessage, q) >= 0}
             IN  IF ps = {} THEN 0
                 ELSE NumberAt(errorMessage, CHOOSE q \in ps : \A j \in ps : q <= j) + 1000

\* aiAnalysisService.js:200  parseRetryDelay(errorMsg) || ((retryCount + 1) * 10000)
RetryDelay(errorMsg, retryCount) ==
    IF parseRetryDelay(errorMsg) # 0
    THEN parseRetryDelay(errorMsg)
    ELSE (retryCount + 1) * 10000

\* Location strings a response may carry.
sNone == <<"n","o","n","e">>
sCapNone == <<"N","o","n","e">>
sSpacedBangalore == <<" ">> \o sBangalore \o <<" ">>
sBengaluru == <<"B","e","n","g","a","l","u","r","u">>
sMGRoadBangalore == sMGRoad \o sCommaBangalore
sMGRoadBengaluru == sMGRoad \o <<",", " ">> \o sBengaluru
LocationInputs ==
    {NullStr, <<>>, sBangalore, sLowBangalore, sSpacedBangalore, sNone, sCapNone,
     sMGRoad, sBengaluru, sMGRoadBangalore, sMGRoadBengaluru}

\* One element of the model's JSON array, without its id; Missing: the array has
\* no element with the tweet's id.
Missing == [missing |-> TRUE]
RawLocations == {NullStr, sMGRoad, sBangalore}
ResponseItems ==
    {Missing} \cup [is_issue : BOOLEAN, location : RawLocations]

\* aiAnalysisService.js:161  analysisArray.find(...) || {is_issue:false, location:null}
FindAnalysis(items, id) ==
    IF items[id] = Missing THEN [is_issue |-> FALSE, location |-> NullStr] ELSE items[id]

\* An element of analyzeBatch's result: the tweet with its aiAnalysis.  origin is
\* not a field of the program: it records which return statement built the element.
Analyzed(id, isIssue, location, skipped, origin) ==
    [id |-> id, isIssue |-> isIssue, location |-> location,
     skipped |-> skipped, origin |-> origin]

\* A degraded result that is tagged skipped, as a quota skip is.
NoIssueResults_skipped(tweets, origin) ==
    [i \in 1..Len(tweets) |-> Analyzed(tweets[i], FALSE, NullStr, TRUE, origin)]

\* aiAnalysisService.js:92, 154, 207   tweets.map(t => ({...t, aiAnalysis:{isIssue:false}}))
NoIssueResults(tweets, origin) ==
    [i \in 1..Len(tweets) |-> Analyzed(tweets[i], FALSE, NullStr, FALSE, origin)]

\* aiAnalysisService.js:101, 195   aiAnalysis: {isIssue:false, skipped:true}
SkippedResults(tweets, origin) ==
    [i \in 1..Len(tweets) |-> Analyzed(tweets[i], FALSE, NullStr, TRUE, origin)]

\* A mapping over the elements of the response (analysisArray.map) instead of
\* over the tweets.
MapResults_ofResponse(tweets, items) ==
    LET found == SelectSeq(tweets, LAMBDA t : items[t] # Missing) IN
    [i \in 1..Len(found) |->
        Analyzed(found[i], items[found[i]].is_issue,
                 SanitizeLocation(items[found[i]].location), FALSE, "model")]

\* aiAnalysisService.js:160-184
MapResults(tweets, items) ==
    [i \in 1..Len(tweets) |->
        LET analysis == FindAnalysis(items, tweets[i]) IN
        Analyzed(tweets[i], analysis.is_issue, SanitizeLocation(analysis.location),
                 FALSE, "model")]

\* ----------------------------------------------------- GeocodingService (pure)
\* Coordinates are in tenths of a degree.
\* twitterService.js:237  lat >= 12.7 && lat <= 13.3 && lon >= 77.3 && lon <= 77.9
LatMin == 127
LatMax == 133
LonMin == 773
LonMax == 779

\* A geocoder that accepts every result.
InBounds_always(lat, lon) == TRUE

InBounds(lat, lon) ==
    lat >= LatMin /\ lat <= LatMax /\ lon >= LonMin /\ lon <= LonMax

NoCoords == [none |-> TRUE]

\* What the lookup request ends with: a rejection (twitterService.js:282-295:
\* a request error, the 5 s timeout, an unparseable body) or the parsed JSON
\* array, of at most one result (limit=1).
NominatimResponses ==
    { [kind |-> "error", results |-> <<>>],
      [kind |-> "timeout", results |-> <<>>],
      [kind |-> "unparseable", results |-> <<>>],
      [kind |-> "ok", results |-> <<>>],
      [kind |-> "ok", results |-> <<[lat |-> 129, lon |-> 776, display_name |-> "MG Road"]>>],
      [kind |-> "ok", results |-> <<[lat |-> 286, lon |-> 772, display_name |-> "MG Road"]>>] }

\* twitterService.js:231-254, geocode after the request
GeocodeResult(resp) ==
    IF resp.kind # "ok" THEN NoCoords
    ELSE IF Len(resp.results) > 0
         THEN LET lat == resp.results[1].lat
                  lon == resp.results[1].lon
              IN  IF InBounds(lat, lon)
                  THEN [lat |-> lat, lon |-> lon,
                        displayName |-> resp.results[1].display_name,
                        source |-> "geocoded"]
                  ELSE NoCoords
         ELSE NoCoords

\* A guard that knows null and '' only.
EmptyInput_noTrim(locationName) ==
    ~Truthy(locationName)

\* twitterService.js:219  the guard of geocode
EmptyInput(locationName) ==
    ~Truthy(locationName) \/ Len(Trim(locationName)) = 0

\* twitterService.js:198  this.minInterval = 1100
minInterval == 1100

\* twitterService.js:197  this.lastCallTime = 0.  The model's clock starts at 0
\* when the process starts, while Date.now() is then far above minInterval: the
\* initial lastCallTime is at least minInterval before every reading of the clock.
LongAgo == 0 - minInterval

\* Two clients that call geocode() on one GeocodingService.
GeoClients == {"c1", "c2"}
\* The clock of the geocoder's clients stops after MaxGeoTicks steps of GeoTickMs.
MaxGeoTicks == 5
GeoTickMs == minInterval \div 2
\* At most MaxRequests lookup requests are issued.
MaxRequests == 3

\* geocodeBatch is called with at most MaxBatchLen location names.
MaxBatchLen == 2

\* The locationName values geocode() is called with.
sSpaces == <<" ", " ">>
GeoInputs == {NullStr, <<>>, sSpaces, sMGRoad}

\* A geocode() call of a client: pc is where it is suspended ("idle": no call,
\* "done": it returned `result`), wakeAt the time its rate-gate timer is due.
\* waited, reqs and resp are not fields of the program: whether the call waited
\* on the rate gate, the lookup requests it issued, and what its request ended with.
NoResp == [kind |-> "none", results |-> <<>>]
IdleCall ==
    [pc |-> "idle", input |-> NullStr, wakeAt |-> 0, result |-> NoCoords,
     waited |-> FALSE, reqs |-> 0, resp |-> NoResp]

\* How the last geocode of a call ended; not a field of the program.
GeoOutcome(resp) ==
    IF resp.kind # "ok" THEN "error"
    ELSE IF GeocodeResult(resp) # NoCoords THEN "hit" ELSE "miss"

\* ------------------------------------------------------------------- Store
\* A row of the locations table, or no row for the post.
NoRow == [absent |-> TRUE]

Statuses == {"pending", "processed_no_issue", "processed_mapped"}

\* ------------------------------------------------------- TwitterService (pure)
\* A tweet text is a sequence of segments separated by spaces.  A segment is a
\* word, or a pair of numerals "<lat>, <lon>" written in one of these ways:
\*   "prefix"     Coords: <lat>, <lon>
\*   "url"        maps.google.com/?q=<lat>,<lon>
\*   "degree"     <lat>(U+00B0)N, <lon>(U+00B0)E       the degree sign
\*   "degreeC2"   <lat>(U+00C2 U+00B0)N, <lon>(U+00C2 U+00B0)E
\*   "plain"      <lat>, <lon>
\*   "pin"        (U+1F4CD) <lat>, <lon>                 the pin emoji
\*   "pinF0"      (U+00F0 U+0178 U+201C) <lat>, <lon>
\* A numeral is a string [\d.]+ : its value in tenths of a degree (exact) or NaN
\* for ".", and the number of digits after its decimal point.  NaN and null are
\* the two values below, which no numeral has.
NaN == 0 - 1
NoNumber == 0 - 2
Num(tenths, decimals) == [tenths |-> tenths, decimals |-> decimals]
Pairs ==
    { <<Num(129, 4), Num(776, 4)>>,     \* 12.9000, 77.6000
      <<Num(130, 4), Num(777, 4)>>,     \* 13.0000, 77.7000
      <<Num(129, 1), Num(776, 1)>>,     \* 12.9, 77.6
      <<Num(135, 4), Num(776, 4)>>,     \* 13.5000, 77.6000
      <<Num(286, 4), Num(772, 4)>>,     \* 28.6000, 77.2000
      <<Num(0, 4), Num(776, 4)>>,       \* 0.0000, 77.6000
      <<Num(NaN, 0), Num(776, 4)>> }    \* ., 77.6000
Kinds == {"prefix", "url", "degree", "degreeC2", "plain", "pin", "pinF0"}
Word == [kind |-> "word"]
Segments ==
    {Word} \cup {[kind |-> k, lat |-> pr[1], lon |-> pr[2]] : k \in Kinds, pr \in Pairs}
\* The texts of at most MaxSegments segments.
MaxSegments == 2
Texts == UNION {[1..n -> Segments] : n \in 0..MaxSegments}

\* parseFloat of a numeral
parseFloat(numeral) == numeral.tenths

\* !x for a number or null
Not(x) == x = NoNumber \/ x = NaN \/ x = 0

\* twitterService.js:102  1[2-3]\.\d{4,}  and  7[6-7]\.\d{4,}
PlainLat(numeral) ==
    numeral.tenths # NaN /\ numeral.tenths \in 120..139 /\ numeral.decimals >= 4
PlainLon(numeral) ==
    numeral.tenths # NaN /\ numeral.tenths \in 760..779 /\ numeral.decimals >= 4

\* The segment holds a match of the k-th regular expression of parseCoordinates
\* (twitterService.js:68, 79, 90, 102, 111).  The degree and pin expressions are
\* written with the characters U+00C2 U+00B0 and U+00F0 U+0178 U+201C.
Matches(k, seg) ==
    /\ seg.kind # "word"
    /\ CASE k = 1 -> seg.kind = "prefix"
         [] k = 2 -> seg.kind = "url"
         [] k = 3 -> seg.kind = "degreeC2"
         [] k = 4 -> /\ seg.kind \in {"prefix", "url", "plain", "pin", "pinF0"}
                     /\ PlainLat(seg.lat) /\ PlainLon(seg.lon)
         [] k = 5 -> seg.kind = "pinF0"

NoMatch == [none |-> TRUE]

\* text.match(regex): the leftmost match
Match(k, txt) ==
    LET idx == {i \in 1..Len(txt) : Matches(k, txt[i])}
    IN  IF idx = {} THEN NoMatch
        ELSE txt[CHOOSE i \in idx : \A j \in idx : i <= j]

\* twitterService.js:71-116  one of the five blocks: lat and lon after it
Attempt(k, acc, txt) ==
    IF k = 1 \/ Not(acc.lat)
    THEN IF Match(k, txt) # NoMatch
         THEN [lat |-> parseFloat(Match(k, txt).lat), lon |-> parseFloat(Match(k, txt).lon)]
         ELSE acc
    ELSE acc

\* A parser that does not validate.
ValidCoordinates_always(lat, lon) == ~Not(lat) /\ ~Not(lon)

\* twitterService.js:121  lat && lon && lat >= 12.7 && ... && lon <= 77.9
ValidCoordinates(lat, lon) ==
    /\ ~Not(lat) /\ ~Not(lon)
    /\ lat >= LatMin /\ lat <= LatMax /\ lon >= LonMin /\ lon <= LonMax

\* twitterService.js:63-126
parseCoordinates(txt) ==
    LET a0 == [lat |-> NoNumber, lon |-> NoNumber]
        a1 == Attempt(1, a0, txt)
        a2 == Attempt(2, a1, txt)
        a3 == Attempt(3, a2, txt)
        a4 == Attempt(4, a3, txt)
        a5 == Attempt(5, a4, txt)
    IN  IF ValidCoordinates(a5.lat, a5.lon)
        THEN [lat |-> a5.lat, lon |-> a5.lon]
        ELSE NoCoords

\* The upstream timeline: tweet id is posted before tweet id + 1, and the text of
\* every odd tweet carries coordinates that parseCoordinates finds
\* (part_009:171, 182-186  coordinates: {...coords, source:'regex'}).
TweetCoordinates(id) ==
    IF id % 2 = 1 THEN [lat |-> 129, lon |-> 776, source |-> "regex"] ELSE NoCoords

\* ------------------------------------------------------------------- state
VARIABLES
    now,                \* Date.now(), in milliseconds
    posts,              \* posts.processing_status by id ("absent": no row)
    locations,          \* the locations row by post_id, or NoRow
    enabled,            \* AiAnalysisService.enabled
    quotaExhausted,     \* AiAnalysisService.quotaExhausted
    quotaResetTime,     \* AiAnalysisService.quotaResetTime
    isProcessing,       \* IssueProcessor.isProcessing
    lastProcessedCount, \* IssueProcessor.lastProcessedCount
    lastCycleTime,      \* IssueProcessor.lastCycleTime
    inv,                \* the locals of each invocation in flight
    ret,                \* what the processQueue() call that returned last returned
    aiRet,              \* what the direct analyzeBatch() call that returned last returned
    lastCallTime,       \* GeocodingService.lastCallTime
    calls,              \* the geocode() calls of the geocoder's clients
    requests,           \* the times the lookup requests were issued at, in order
    text,               \* the tweet text parseCoordinates is called with
    parsed,             \* what parseCoordinates returned for it
    postTable,          \* the rows of table posts, in insertion order
    locTable,           \* the rows of table locations, in insertion order
    storeCall,          \* the last call of the Store, the number of calls so far
    rawLocation,        \* the location string of an element of the model's response
    sanitized,          \* the location of the result built from it
    retryArgs,          \* the error message and retryCount of a transient failure
    retryDelay,         \* the delay analyzeBatch waits before it retries
    aiLastCallTime,     \* AiAnalysisService.lastCallTime
    aiCall,             \* the analyzeBatch call of the classifier's one client
    aiRequests,         \* the times the model requests were issued at, in order
    geoBatch,           \* the geocodeBatch call of the geocoder's one client
    txn                 \* the savePosts / saveLocations call in flight and its transaction

vars ==
    <<now, posts, locations, enabled, quotaExhausted, quotaResetTime, isProcessing,
      lastProcessedCount, lastCycleTime, inv, ret, aiRet,
      lastCallTime, calls, requests, text, parsed, postTable, locTable, storeCall,
      rawLocation, sanitized, retryArgs, retryDelay,
      aiLastCallTime, aiCall, aiRequests, geoBatch, txn>>

storeVars == <<posts, locations>>
aiVars == <<enabled, quotaExhausted, quotaResetTime>>
procVars == <<isProcessing, lastProcessedCount, lastCycleTime>>
geoVars == <<lastCallTime, calls, requests>>
pipelineVars == <<storeVars, aiVars, procVars, inv, ret, aiRet>>
parseVars == <<text, parsed>>
\* The state of the units that are exercised on their own.
tableVars == <<postTable, locTable, storeCall>>
helperVars == <<rawLocation, sanitized, retryArgs, retryDelay>>
gateVars == <<aiLastCallTime, aiCall, aiRequests>>
\* The state of the flows that are exercised on their own.
flowVars == <<geoBatch, txn>>
unitVars == <<parseVars, tableVars, helperVars, gateVars, flowVars>>

\* aiAnalysisService.js:18  this.minInterval = 5000
aiMinInterval == 5000
\* aiAnalysisService.js:17  lastCallTime = 0, and Date.now() is far beyond
\* minInterval: the first call never waits.  The model clock starts at 0.
AiLongAgo == 0 - aiMinInterval
\* One tick of the clock of the classifier's gate, in milliseconds.
AiTickMs == 1250
\* The clock of the gate stops after MaxAiTicks ticks; at most MaxAiRequests
\* requests are issued.
MaxAiTicks == 9
MaxAiRequests == 3
\* The analyzeBatch call of the client: pc is the await it is suspended at, size
\* the number of tweets of its batch, waited whether rateLimit made it wait.
IdleAiCall == [pc |-> "idle", size |-> 0, retryCount |-> 0, wakeAt |-> 0, waited |-> FALSE]

\* No location sanitized yet; no transient failure yet.
NotSanitized == <<"<none>">>
NoRetryArgs == [errorMsg |-> <<>>, retryCount |-> 0]
NoDelay == 0 - 1

\* No call of the Store yet.
NoStoreCall == [op |-> "none", id |-> 0, existed |-> FALSE, n |-> 0]

\* No call of parseCoordinates yet.
NoText == <<[kind |-> "none"]>>
NotCalled == [called |-> FALSE]

NoError == <<>>
\* No response of the model: response is not a field of the program, it is the
\* JSON array (by tweet id) the result of the analyzeBatch call was mapped from.
NoResponse == <<>>

\* The locals of an invocation of processQueue (or of a direct analyzeBatch):
\* pc is the await it is suspended at.  reads, writes, aiReqs and geoReqs count
\* the Store queries and the geocode requests the invocation has issued, and
\* postWrites the Store writes issued for the post being finalized; aiReqs and
\* delays count the requests and the backoff waits of the analyzeBatch call in
\* flight, lastError is the message its last request failed with, and usedAi is
\* whether the analyzeBatch call that returned had issued a request; geo is how
\* the geocode of the post being finalized ended; quotaAtCall is whether the
\* quota flag was set and its reset time not passed when analyzeBatch was called.
IdleInv ==
    [pc |-> "idle", pendingPosts |-> <<>>, queue |-> <<>>,
     processedCount |-> 0, mappedCount |-> 0, retryCount |-> 0,
     locationSaved |-> FALSE, coords |-> NoCoords, geo |-> "none",
     quotaAtCall |-> FALSE, lastError |-> NoError, delays |-> 0,
     response |-> NoResponse,
     reads |-> 0, writes |-> 0, postWrites |-> 0,
     aiReqs |-> 0, usedAi |-> FALSE, geoReqs |-> 0]

NoMinutes == -1

\* The object processQueue returns (issueProcessor.js:20, 27, 43, 55, 74), with
\* the counts of the invocation l that returns it.
Result(skipped, reason, minutes, l) ==
    [returned |-> TRUE, skipped |-> skipped, reason |-> reason,
     processed |-> l.processedCount, mapped |-> l.mappedCount,
     minutesUntilReset |-> minutes, fetched |-> Len(l.pendingPosts),
     reads |-> l.reads, writes |-> l.writes, usedAi |-> l.usedAi, geoReqs |-> l.geoReqs]

NoRet == [Result(FALSE, "none", NoMinutes, IdleInv) EXCEPT !.returned = FALSE]

NoAiRet ==
    [returned |-> FALSE, results |-> <<>>, tweets |-> <<>>, aiReqs |-> 0, delays |-> 0,
     lastError |-> NoError, quotaAtCall |-> FALSE, response |-> NoResponse]

\* A geocodeBatch call of the geocoder's client c1: pc is where it is ("idle":
\* no call, "loop": at the head of the for loop, "await": awaiting geocode,
\* "returned": it returned `results`).  lookups is not a variable of the
\* program: for every position done, the input the position was handled for,
\* whether geocode was called, the lookup requests issued and how it ended.
IdleBatch == [pc |-> "idle", locations |-> <<>>, results |-> <<>>, lookups |-> <<>>]

\* The argument of a Store call: an array of items, or an object that is none.
ArrayOf(items) == [kind |-> "array", items |-> items]

\* The savePosts / saveLocations call in flight: pc is where it is ("idle": no
\* call, "loop": inside its transaction, before the statements of item k + 1,
\* "catch": a statement failed, "returned": it returned count, "thrown": it
\* threw), posts and locs are the two tables as its transaction sees them.
\* beforePosts and beforeLocs are not variables of the program: the tables
\* when the call was made.
IdleTxn ==
    [pc |-> "idle", op |-> "none", caller |-> "none", arg |-> ArrayOf(<<>>), k |-> 0,
     count |-> 0, posts |-> <<>>, locs |-> <<>>,
     beforePosts |-> <<>>, beforeLocs |-> <<>>]

Init ==
    /\ now = 0
    /\ posts = [id \in PostIds |-> "absent"]
    /\ locations = [id \in PostIds |-> NoRow]
    /\ enabled \in BOOLEAN
    /\ quotaExhausted = FALSE
    /\ quotaResetTime = NoTime
    /\ isProcessing = FALSE
    /\ lastProcessedCount = 0
    /\ lastCycleTime = NoTime
    /\ inv = [c \in Invocations |-> IdleInv]
    /\ ret = NoRet
    /\ aiRet = NoAiRet
    /\ lastCallTime = LongAgo
    /\ calls = [k \in GeoClients |-> IdleCall]
    /\ requests = <<>>
    /\ text = NoText
    /\ parsed = NotCalled
    /\ postTable = <<>>
    /\ locTable = <<>>
    /\ storeCall = NoStoreCall
    /\ rawLocation = NullStr
    /\ sanitized = NotSanitized
    /\ retryArgs = NoRetryArgs
    /\ retryDelay = NoDelay
    /\ aiLastCallTime = AiLongAgo
    /\ aiCall = IdleAiCall
    /\ aiRequests = <<>>
    /\ geoBatch = IdleBatch
    /\ txn = IdleTxn

\* Time passes between two turns of the event loop.
Tick ==
    /\ now < MaxTicks * TickMs
    /\ now' = now + TickMs
    /\ UNCHANGED <<storeVars, aiVars, procVars, inv, ret, aiRet>>
    /\ UNCHANGED <<geoVars, unitVars>>

\* ------------------------------------------------------------ Store operations
Min(a, b) == IF a <= b THEN a ELSE b
Max(a, b) == IF a >= b THEN a ELSE b

RECURSIVE Ascending(_)
Ascending(S) ==
    IF S = {} THEN <<>>
    ELSE LET m == CHOOSE x \in S : \A y \in S : x <= y
         IN  <<m>> \o Ascending(S \ {m})

\* A query without its WHERE clause.
getPendingPosts_all(limit) ==
    LET rows == Ascending({id \in PostIds : posts[id] # "absent"})
    IN  SubSeq(rows, 1, Min(limit, Len(rows)))

\* A query that orders the newest row first (ORDER BY created_at DESC).
getPendingPosts_newestFirst(limit) ==
    LET rows == Ascending({id \in PostIds : posts[id] = "pending"})
        desc == [k \in 1..Len(rows) |-> rows[Len(rows) + 1 - k]]
    IN  SubSeq(desc, 1, Min(limit, Len(desc)))

\* A query that passes over the oldest pending row (OFFSET 1).
getPendingPosts_afterFirst(limit) ==
    LET rows == Ascending({id \in PostIds : posts[id] = "pending"})
        rest == IF rows = <<>> THEN rows ELSE Tail(rows)
    IN  SubSeq(rest, 1, Min(limit, Len(rest)))

\* part_005:185-193  WHERE processing_status = 'pending' ORDER BY created_at ASC LIMIT $1
getPendingPosts(limit) ==
    LET rows == Ascending({id \in PostIds : posts[id] = "pending"})
    IN  SubSeq(rows, 1, Min(limit, Len(rows)))

\* part_005:198-204  UPDATE posts SET processing_status = $1 WHERE id = $2
markPostAsProcessed(postId, status) ==
    [posts EXCEPT ![postId] = IF @ = "absent" THEN @ ELSE status]

\* part_005:150-160  INSERT ... ON CONFLICT (post_id) DO UPDATE
saveLocationInternal(locs, postId, coordinates, extractedLocation) ==
    [locs EXCEPT ![postId] =
        [coordinates |-> coordinates, extractedLocation |-> extractedLocation]]

\* part_005:165-180  one item, as finalizePost calls it
saveLocations(item) ==
    saveLocationInternal(locations, item.id, item.coordinates, item.extractedLocation)

\* part_005:111-127  INSERT ... 'pending' ... ON CONFLICT (id) DO UPDATE media_urls
InsertPost(ps, id) ==
    [ps EXCEPT ![id] = IF @ = "absent" THEN "pending" ELSE @]

\* part_005:99-145  savePosts of the tweets lo..hi (one transaction)
savePostsStatus(lo, hi) ==
    [id \in PostIds |->
        IF id >= lo /\ id <= hi THEN InsertPost(posts, id)[id] ELSE posts[id]]

savePostsLocations(lo, hi) ==
    [id \in PostIds |->
        IF id >= lo /\ id <= hi /\ TweetCoordinates(id) # NoCoords
        THEN saveLocationInternal(locations, id, TweetCoordinates(id), NullStr)[id]
        ELSE locations[id]]

\* part_005:249-252  the greatest stored id, 0 for none
getLatestTweetId ==
    IF \A id \in PostIds : posts[id] = "absent" THEN 0
    ELSE CHOOSE id \in PostIds :
            posts[id] # "absent" /\ \A j \in PostIds : posts[j] # "absent" => j <= id

\* part_000:5-34  fetchTweets: the tweets newer than the latest stored one, up to
\* the newest one posted so far (hi), are parsed and saved.
FetchTweets ==
    \E hi \in PostIds :
        /\ hi > getLatestTweetId
        /\ posts' = savePostsStatus(getLatestTweetId + 1, hi)
        /\ locations' = savePostsLocations(getLatestTweetId + 1, hi)
        /\ UNCHANGED <<now, aiVars, procVars, inv, ret, aiRet, geoVars, unitVars>>

\* ------------------------------------------------- AiAnalysisService (state)
\* A reset that is due at the reset time itself (>= for >).
QuotaResetReached_atReset ==
    quotaResetTime # NoTime /\ now >= quotaResetTime

\* aiAnalysisService.js:33  this.quotaResetTime && Date.now() > this.quotaResetTime
QuotaResetReached ==
    quotaResetTime # NoTime /\ now > quotaResetTime

\* An isQuotaExhausted() that ignores the flag.
isQuotaExhausted_never == FALSE

\* aiAnalysisService.js:29-41  the value isQuotaExhausted() returns
isQuotaExhausted ==
    quotaExhausted /\ ~QuotaResetReached

\* aiAnalysisService.js:33-37  what isQuotaExhausted() does to the flag
isQuotaExhaustedEffect ==
    IF quotaExhausted /\ QuotaResetReached
    THEN quotaExhausted' = FALSE /\ quotaResetTime' = NoTime
    ELSE UNCHANGED <<quotaExhausted, quotaResetTime>>

\* Math.ceil(a / b) for b > 0
CeilDiv(a, b) == -((-a) \div b)

\* aiAnalysisService.js:214-223
getStatus ==
    [enabled |-> enabled,
     quotaExhausted |-> quotaExhausted,
     quotaResetTime |-> quotaResetTime,
     minutesUntilReset |->
        IF quotaResetTime # NoTime
        THEN Max(0, CeilDiv(quotaResetTime - now, 60000))
        ELSE NoMinutes]

\* Whether the top-level call of analyzeBatch (retryCount 0) finds the quota flag
\* set and the reset time not passed; a retry keeps what its top-level call found.
QuotaAtCall(i) ==
    IF inv[i].retryCount = 0
    THEN quotaExhausted /\ now <= quotaResetTime
    ELSE inv[i].quotaAtCall

\* analyzeBatch returns `results` to its caller: the invocation resumes after its
\* await with them.
AnalyzeReturns(i, results) ==
    inv' = [inv EXCEPT ![i].pc = "analyzed", ![i].queue = results,
                       ![i].retryCount = 0,
                       ![i].quotaAtCall = QuotaAtCall(i)]

\* analyzeBatch returns `results` after its request settled: errorMsg is the
\* message the request failed with, NoError if it returned a response.
AnalyzeSettles(i, results, errorMsg) ==
    inv' = [inv EXCEPT ![i].pc = "analyzed", ![i].queue = results,
                       ![i].retryCount = 0, ![i].lastError = errorMsg]

\* aiAnalysisService.js:159-184  analyzeBatch returns the response `items`,
\* mapped back to its tweets.  The response is recorded for the direct client.
AnalyzeResponds(i, items) ==
    inv' = [inv EXCEPT ![i].pc = "analyzed",
                       ![i].queue = MapResults(inv[i].pendingPosts, items),
                       ![i].retryCount = 0, ![i].lastError = NoError,
                       ![i].response = IF i = Direct THEN items ELSE NoResponse]

\* An analyzeBatch that returns at once for an empty batch only.
ReturnsAtOnce_emptyOnly(tweets) == Len(tweets) = 0

\* aiAnalysisService.js:91  if (!this.enabled || tweets.length === 0)
ReturnsAtOnce(tweets) == ~enabled \/ Len(tweets) = 0

\* aiAnalysisService.js:90-105  analyzeBatch(tweets, retryCount) up to its request
AnalyzeBatchEntry(i) ==
    /\ inv[i].pc = "analyzeBatch"
    /\ IF ReturnsAtOnce(inv[i].pendingPosts)
       THEN /\ AnalyzeReturns(i, NoIssueResults(inv[i].pendingPosts, "disabled"))
            /\ UNCHANGED <<quotaExhausted, quotaResetTime>>
       ELSE IF isQuotaExhausted
       THEN /\ AnalyzeReturns(i, SkippedResults(inv[i].pendingPosts, "quota_flag"))
            /\ UNCHANGED <<quotaExhausted, quotaResetTime>>
       ELSE /\ isQuotaExhaustedEffect
            /\ inv' = [inv EXCEPT ![i].pc = "generateContent",
                                  ![i].aiReqs = @ + 1,
                                  ![i].quotaAtCall = QuotaAtCall(i)]
    /\ UNCHANGED <<now, storeVars, enabled, procVars, ret, aiRet>>
    /\ UNCHANGED <<geoVars, unitVars>>

\* aiAnalysisService.js:141-184  the request returned a response
ResponseArrives(i) ==
    /\ inv[i].pc = "generateContent"
    /\ \/ \E items \in [{inv[i].pendingPosts[k] : k \in 1..Len(inv[i].pendingPosts)}
                            -> ResponseItems] :
            AnalyzeResponds(i, items)
       \/ AnalyzeSettles(i, NoIssueResults(inv[i].pendingPosts, "unparseable"), NoError)
    /\ UNCHANGED <<now, storeVars, aiVars, procVars, ret, aiRet>>
    /\ UNCHANGED <<geoVars, unitVars>>

\* A catch block that tests for the retry first.
HandledAsHardQuota_afterRetry(errorMsg, retryCount) ==
    isDailyQuotaExhausted(errorMsg) /\ ~ShouldRetry(errorMsg, retryCount)

\* aiAnalysisService.js:190-199  the daily-quota test comes first, whatever
\* retryCount is; the retry test is reached only if it fails
HandledAsHardQuota(errorMsg, retryCount) ==
    isDailyQuotaExhausted(errorMsg)

\* aiAnalysisService.js:186-208  the request failed with errorMsg
RequestFails(i) ==
    /\ inv[i].pc = "generateContent"
    /\ \E errorMsg \in ErrorMessages :
        IF HandledAsHardQuota(errorMsg, inv[i].retryCount)
        THEN /\ quotaExhausted' = TRUE
             /\ quotaResetTime' = now + QuotaResetMs
             /\ AnalyzeSettles(i, SkippedResults(inv[i].pendingPosts, "quota_hit"), errorMsg)
        ELSE IF ShouldRetry(errorMsg, inv[i].retryCount)
        THEN /\ inv' = [inv EXCEPT ![i].pc = "backoff", ![i].delays = @ + 1,
                                   ![i].lastError = errorMsg]
             /\ UNCHANGED <<quotaExhausted, quotaResetTime>>
        ELSE /\ AnalyzeSettles(i, NoIssueResults(inv[i].pendingPosts,
                    IF IsTransient(errorMsg) THEN "retries_exhausted" ELSE "error"),
                    errorMsg)
             /\ UNCHANGED <<quotaExhausted, quotaResetTime>>
    /\ UNCHANGED <<now, storeVars, enabled, procVars, ret, aiRet>>
    /\ UNCHANGED <<geoVars, unitVars>>

\* aiAnalysisService.js:202-203  the backoff timer fired: analyzeBatch(tweets, retryCount + 1)
BackoffDone(i) ==
    /\ inv[i].pc = "backoff"
    /\ inv' = [inv EXCEPT ![i].pc = "analyzeBatch", ![i].retryCount = @ + 1]
    /\ UNCHANGED <<now, storeVars, aiVars, procVars, ret, aiRet>>
    /\ UNCHANGED <<geoVars, unitVars>>

\* A direct call of analyzeBatch(tweets), tweets being the tweets 1..n
\* (aiAnalysisService.js:81-90; part_000:87-93 awaits one call after the other).
DirectCall ==
    /\ inv[Direct].pc = "idle"
    /\ \E n \in 0..NumPosts :
        inv' = [inv EXCEPT ![Direct] =
                    [IdleInv EXCEPT !.pc = "analyzeBatch",
                                    !.pendingPosts = [k \in 1..n |-> k]]]
    /\ aiRet' = NoAiRet
    /\ UNCHANGED <<now, storeVars, aiVars, procVars, ret>>
    /\ UNCHANGED <<geoVars, unitVars>>

\* The direct call returned.
DirectReturn ==
    /\ inv[Direct].pc = "analyzed"
    /\ aiRet' = [returned |-> TRUE,
                 results |-> inv[Direct].queue, tweets |-> inv[Direct].pendingPosts,
                 aiReqs |-> inv[Direct].aiReqs, delays |-> inv[Direct].delays,
                 lastError |-> inv[Direct].lastError,
                 quotaAtCall |-> inv[Direct].quotaAtCall,
                 response |-> inv[Direct].response]
    /\ inv' = [inv EXCEPT ![Direct] = IdleInv]
    /\ UNCHANGED <<now, storeVars, aiVars, procVars, ret>>
    /\ UNCHANGED <<geoVars, unitVars>>

\* ------------------------------------------------------------- IssueProcessor
\* A processQueue without its first guard.
AlreadyProcessing_never == FALSE

\* issueProcessor.js:18  if (this.isProcessing)
AlreadyProcessing == isProcessing

\* processQueue returns: the invocation ends and its result is the last one.
Returns(c, skipped, reason, minutes, l) ==
    /\ ret' = Result(skipped, reason, minutes, l)
    /\ inv' = [inv EXCEPT ![c] = IdleInv]

\* issueProcessor.js:18-21
SkipAlreadyProcessing(c) ==
    /\ inv[c].pc = "idle"
    /\ AlreadyProcessing
    /\ ret' = Result(TRUE, "already_processing", NoMinutes, inv[c])
    /\ UNCHANGED <<now, storeVars, aiVars, procVars, inv, aiRet>>
    /\ UNCHANGED <<geoVars, unitVars>>

\* issueProcessor.js:24-28
SkipQuotaExhausted(c) ==
    /\ inv[c].pc = "idle"
    /\ ~AlreadyProcessing
    /\ isQuotaExhausted
    /\ ret' = Result(TRUE, "quota_exhausted", getStatus.minutesUntilReset, inv[c])
    /\ UNCHANGED <<now, storeVars, aiVars, procVars, inv, aiRet>>
    /\ UNCHANGED <<geoVars, unitVars>>

\* issueProcessor.js:18-39  both guards pass: the cycle starts and asks the Store
\* for the pending posts
StartCycle(c) ==
    /\ inv[c].pc = "idle"
    /\ ~AlreadyProcessing
    /\ ~isQuotaExhausted
    /\ isQuotaExhaustedEffect
    /\ isProcessing' = TRUE
    /\ lastCycleTime' = now
    /\ inv' = [inv EXCEPT ![c] = [IdleInv EXCEPT !.pc = "getPendingPosts", !.reads = 1]]
    /\ ret' = NoRet
    /\ UNCHANGED <<now, storeVars, enabled, lastProcessedCount, aiRet>>
    /\ UNCHANGED <<geoVars, unitVars>>

\* A processQueue without its finally block.
Throws_noFinally(c, l) ==
    /\ Returns(c, FALSE, "none", NoMinutes, l)
    /\ UNCHANGED procVars

\* A processQueue that catches inside its loop and goes on with the next post.
Throws_nextPost(c, l) ==
    /\ inv' = [inv EXCEPT ![c].pc = "finalize",
                           ![c].queue = IF @ = <<>> THEN @ ELSE Tail(@),
                           ![c].locationSaved = FALSE,
                           ![c].coords = NoCoords,
                           ![c].geo = "none",
                           ![c].postWrites = 0]
    /\ UNCHANGED <<procVars, ret>>

\* issueProcessor.js:67-74  catch, finally, and the return after them
Throws(c, l) ==
    /\ isProcessing' = FALSE
    /\ Returns(c, FALSE, "none", NoMinutes, l)
    /\ UNCHANGED <<lastProcessedCount, lastCycleTime>>

\* issueProcessor.js:39-49  getPendingPosts returned (or threw)
PendingPostsArrive(c) ==
    /\ inv[c].pc = "getPendingPosts"
    /\ \/ Throws(c, inv[c])
       \/ LET pendingPosts == getPendingPosts(BatchLimit) IN
          IF Len(pendingPosts) = 0
          THEN /\ isProcessing' = FALSE
               /\ Returns(c, FALSE, "no_pending", NoMinutes, inv[c])
               /\ UNCHANGED <<lastProcessedCount, lastCycleTime>>
          ELSE /\ inv' = [inv EXCEPT ![c].pc = "analyzeBatch",
                                     ![c].pendingPosts = pendingPosts]
               /\ UNCHANGED <<procVars, ret>>
    /\ UNCHANGED <<now, storeVars, aiVars, aiRet>>
    /\ UNCHANGED <<geoVars, unitVars>>

\* A processQueue that does not look at the skipped tag.
FirstSkipped_never(analyzedPosts) == FALSE

\* issueProcessor.js:52  analyzedPosts[0]?.aiAnalysis?.skipped
FirstSkipped(analyzedPosts) ==
    Len(analyzedPosts) > 0 /\ analyzedPosts[1].skipped

\* issueProcessor.js:49-58  analyzeBatch returned
AfterAnalyze(c) ==
    /\ inv[c].pc = "analyzed"
    /\ IF FirstSkipped(inv[c].queue)
       THEN /\ isProcessing' = FALSE
            /\ Returns(c, TRUE, "quota_exhausted_mid_cycle", NoMinutes,
                       [inv[c] EXCEPT !.usedAi = inv[c].aiReqs > 0])
            /\ UNCHANGED <<lastProcessedCount, lastCycleTime>>
       ELSE /\ inv' = [inv EXCEPT ![c].pc = "finalize",
                                  ![c].usedAi = inv[c].aiReqs > 0,
                                  ![c].aiReqs = 0, ![c].delays = 0,
                                  ![c].lastError = NoError,
                                  ![c].response = NoResponse]
            /\ UNCHANGED <<procVars, ret>>
    /\ UNCHANGED <<now, storeVars, aiVars, aiRet>>
    /\ UNCHANGED <<geoVars, unitVars>>

\* issueProcessor.js:85  analysis && analysis.isIssue && analysis.location
IssueWithLocation(post) ==
    post.isIssue /\ Truthy(post.location)

\* A finalizePost that marks every post mapped.
FinalStatus_alwaysMapped(locationSaved) == "processed_mapped"

\* issueProcessor.js:111  locationSaved ? 'processed_mapped' : 'processed_no_issue'
FinalStatus(locationSaved) ==
    IF locationSaved THEN "processed_mapped" ELSE "processed_no_issue"

\* issueProcessor.js:59-74, 80-89  the head of the loop: the cycle completes, or
\* finalizePost(post) runs up to its first await
FinalizeNext(c) ==
    /\ inv[c].pc = "finalize"
    /\ IF inv[c].queue = <<>>
       THEN /\ lastProcessedCount' = inv[c].processedCount
            /\ isProcessing' = FALSE
            /\ Returns(c, FALSE, "none", NoMinutes, inv[c])
            /\ UNCHANGED lastCycleTime
       ELSE /\ IF IssueWithLocation(inv[c].queue[1])
               THEN IF EmptyInput(inv[c].queue[1].location)
                    THEN inv' = [inv EXCEPT ![c].pc = "markPostAsProcessed",
                                            ![c].writes = @ + 1,
                                            ![c].postWrites = @ + 1]
                    ELSE inv' = [inv EXCEPT ![c].pc = "geocode",
                                            ![c].geoReqs = @ + 1]
               ELSE inv' = [inv EXCEPT ![c].pc = "markPostAsProcessed",
                                       ![c].writes = @ + 1,
                                       ![c].postWrites = @ + 1]
            /\ UNCHANGED <<procVars, ret>>
    /\ UNCHANGED <<now, storeVars, aiVars, aiRet>>
    /\ UNCHANGED <<geoVars, unitVars>>

\* issueProcessor.js:89-107  geocode returned
GeocodeReturns(c) ==
    /\ inv[c].pc = "geocode"
    /\ \E resp \in NominatimResponses :
        LET coords == GeocodeResult(resp) IN
        IF coords # NoCoords
        THEN inv' = [inv EXCEPT ![c].pc = "saveLocations", ![c].coords = coords,
                                ![c].geo = GeoOutcome(resp), ![c].writes = @ + 1,
                                ![c].postWrites = @ + 1]
        ELSE inv' = [inv EXCEPT ![c].pc = "markPostAsProcessed",
                                ![c].geo = GeoOutcome(resp), ![c].writes = @ + 1,
                                ![c].postWrites = @ + 1]
    /\ UNCHANGED <<now, storeVars, aiVars, procVars, ret, aiRet>>
    /\ UNCHANGED <<geoVars, unitVars>>

\* issueProcessor.js:94-103  saveLocations committed (or threw)
LocationSaved(c) ==
    /\ inv[c].pc = "saveLocations"
    /\ \/ /\ locations' = saveLocations([id |-> inv[c].queue[1].id,
                                          coordinates |-> inv[c].coords,
                                          extractedLocation |-> inv[c].queue[1].location])
          /\ inv' = [inv EXCEPT ![c].pc = "throttle", ![c].locationSaved = TRUE]
          /\ UNCHANGED <<procVars, ret>>
       \/ /\ Throws(c, inv[c])
          /\ UNCHANGED locations
    /\ UNCHANGED <<now, posts, aiVars, aiRet>>
    /\ UNCHANGED <<geoVars, unitVars>>

\* issueProcessor.js:103-111  the 1.1 s timer fired
ThrottleDone(c) ==
    /\ inv[c].pc = "throttle"
    /\ inv' = [inv EXCEPT ![c].pc = "markPostAsProcessed", ![c].writes = @ + 1,
                           ![c].postWrites = @ + 1]
    /\ UNCHANGED <<now, storeVars, aiVars, procVars, ret, aiRet>>
    /\ UNCHANGED <<geoVars, unitVars>>

\* issueProcessor.js:60-63, 111-112  markPostAsProcessed returned (or threw)
PostMarked(c) ==
    /\ inv[c].pc = "markPostAsProcessed"
    /\ \/ /\ posts' = markPostAsProcessed(inv[c].queue[1].id,
                                          FinalStatus(inv[c].locationSaved))
          /\ inv' = [inv EXCEPT ![c].pc = "finalize",
                                ![c].queue = Tail(@),
                                ![c].processedCount = @ + 1,
                                ![c].mappedCount =
                                    IF inv[c].locationSaved THEN @ + 1 ELSE @,
                                ![c].locationSaved = FALSE,
                                ![c].coords = NoCoords,
                                ![c].geo = "none",
                                ![c].postWrites = 0]
          /\ UNCHANGED <<procVars, ret>>
       \/ /\ Throws(c, inv[c])
          /\ UNCHANGED posts
    /\ UNCHANGED <<now, locations, aiVars, aiRet>>
    /\ UNCHANGED <<geoVars, unitVars>>

ProcessQueue(c) ==
    \/ SkipAlreadyProcessing(c)
    \/ SkipQuotaExhausted(c)
    \/ StartCycle(c)
    \/ PendingPostsArrive(c)
    \/ AnalyzeBatchEntry(c)
    \/ ResponseArrives(c)
    \/ RequestFails(c)
    \/ BackoffDone(c)
    \/ AfterAnalyze(c)
    \/ FinalizeNext(c)
    \/ GeocodeReturns(c)
    \/ LocationSaved(c)
    \/ ThrottleDone(c)
    \/ PostMarked(c)

\* ----------------------------------------------------- GeocodingService (state)
\* The clock of the geocoder's clients.
GeoTick ==
    /\ now < MaxGeoTicks * GeoTickMs
    /\ now' = now + GeoTickMs
    /\ UNCHANGED <<pipelineVars, geoVars, unitVars>>

\* twitterService.js:212, 225-229  rateLimit is through: lastCallTime is set and
\* the lookup request is issued, in the same turn
IssueRequest(k, call) ==
    /\ lastCallTime' = now
    /\ requests' = Append(requests, now)
    /\ calls' = [calls EXCEPT ![k] = [call EXCEPT !.pc = "makeRequest",
                                                  !.wakeAt = 0,
                                                  !.reqs = @ + 1]]

\* A rate gate that never waits.
MustWait_never(timeSinceLastCall) == FALSE

\* twitterService.js:208  if (timeSinceLastCall < this.minInterval)
MustWait(timeSinceLastCall) ==
    timeSinceLastCall < minInterval

\* twitterService.js:218-229, 204-213  geocode(locationName) up to its first
\* await: the guard, then rateLimit, which waits or lets the request go
Geocode(k, locationName) ==
    LET call == [IdleCall EXCEPT !.input = locationName] IN
    IF EmptyInput(locationName)
    THEN /\ calls' = [calls EXCEPT ![k] = [call EXCEPT !.pc = "done"]]
         /\ UNCHANGED <<lastCallTime, requests>>
    ELSE LET timeSinceLastCall == now - lastCallTime IN
         IF MustWait(timeSinceLastCall)
         THEN /\ calls' = [calls EXCEPT ![k] =
                    [call EXCEPT !.pc = "rateLimit",
                                 !.wakeAt = now + (minInterval - timeSinceLastCall),
                                 !.waited = TRUE]]
              /\ UNCHANGED <<lastCallTime, requests>>
         ELSE IssueRequest(k, call)

\* A client calls geocode() with some locationName.
GeoCall(k) ==
    /\ calls[k].pc = "idle"
    /\ Len(requests) < MaxRequests
    /\ \E locationName \in GeoInputs : Geocode(k, locationName)
    /\ UNCHANGED <<now, pipelineVars, unitVars>>

\* twitterService.js:209-212  the timer of rateLimit fired (no earlier than due)
TimerFires(k) ==
    /\ calls[k].pc = "rateLimit"
    /\ now >= calls[k].wakeAt
    /\ IssueRequest(k, calls[k])
    /\ UNCHANGED <<now, pipelineVars, unitVars>>

\* twitterService.js:229-254  makeRequest settled: geocode returns
GeoResponse(k) ==
    /\ calls[k].pc = "makeRequest"
    /\ \E resp \in NominatimResponses :
        calls' = [calls EXCEPT ![k].pc = "done", ![k].result = GeocodeResult(resp),
                               ![k].resp = resp]
    /\ UNCHANGED <<now, lastCallTime, requests, pipelineVars, unitVars>>

\* The client has the result and may call again.
GeoReturn(k) ==
    /\ calls[k].pc = "done"
    /\ calls' = [calls EXCEPT ![k] = IdleCall]
    /\ UNCHANGED <<now, lastCallTime, requests, pipelineVars, unitVars>>

\* -------------------------------------------------- GeocodingService (batch)
\* The lists geocodeBatch is called with.
BatchInputs == UNION {[1..n -> GeoInputs] : n \in 0..MaxBatchLen}

\* A loop that leaves the position of a skipped name out.
PushNull_omitted(results) == results

\* twitterService.js:310  results.push(null)
PushNull(results) == Append(results, NoCoords)

\* twitterService.js:309  if (!locations[i])
SkipsLookup(location) == ~Truthy(location)

\* twitterService.js:304-306  geocodeBatch(locations): results = []
BatchStart ==
    /\ geoBatch.pc = "idle"
    /\ calls["c1"].pc = "idle"
    /\ Len(requests) < MaxRequests
    /\ \E names \in BatchInputs :
        geoBatch' = [IdleBatch EXCEPT !.pc = "loop", !.locations = names]
    /\ UNCHANGED <<now, pipelineVars, geoVars, txn, parseVars, tableVars, helperVars, gateVars>>

\* twitterService.js:309-312  results.push(null); continue
BatchSkip ==
    /\ geoBatch.pc = "loop"
    /\ Len(geoBatch.results) < Len(geoBatch.locations)
    /\ LET location == geoBatch.locations[Len(geoBatch.results) + 1] IN
        /\ SkipsLookup(location)
        /\ geoBatch' = [geoBatch EXCEPT
              !.results = PushNull(@),
              !.lookups = Append(@, [input |-> location, called |-> FALSE,
                                     reqs |-> 0, outcome |-> "skipped"])]
    /\ UNCHANGED <<now, pipelineVars, geoVars, txn, parseVars, tableVars, helperVars, gateVars>>

\* twitterService.js:318  const coords = await this.geocode(locations[i])
BatchGeocode ==
    /\ geoBatch.pc = "loop"
    /\ Len(geoBatch.results) < Len(geoBatch.locations)
    /\ LET location == geoBatch.locations[Len(geoBatch.results) + 1] IN
        /\ ~SkipsLookup(location)
        /\ Geocode("c1", location)
    /\ geoBatch' = [geoBatch EXCEPT !.pc = "await"]
    /\ UNCHANGED <<now, pipelineVars, txn, parseVars, tableVars, helperVars, gateVars>>

\* twitterService.js:318-319  geocode returned: results.push(coords)
BatchCollect ==
    /\ geoBatch.pc = "await"
    /\ calls["c1"].pc = "done"
    /\ geoBatch' = [geoBatch EXCEPT
          !.pc = "loop",
          !.results = Append(@, calls["c1"].result),
          !.lookups = Append(@, [input |-> calls["c1"].input, called |-> TRUE,
                                 reqs |-> calls["c1"].reqs,
                                 outcome |-> IF calls["c1"].reqs = 0 THEN "empty"
                                             ELSE GeoOutcome(calls["c1"].resp)])]
    /\ calls' = [calls EXCEPT !["c1"] = IdleCall]
    /\ UNCHANGED <<now, lastCallTime, requests, pipelineVars, txn,
                   parseVars, tableVars, helperVars, gateVars>>

\* twitterService.js:322-325  the loop is over: return results
BatchReturn ==
    /\ geoBatch.pc = "loop"
    /\ Len(geoBatch.results) >= Len(geoBatch.locations)
    /\ geoBatch' = [geoBatch EXCEPT !.pc = "returned"]
    /\ UNCHANGED <<now, pipelineVars, geoVars, txn, parseVars, tableVars, helperVars, gateVars>>

\* The client has the list and may call again.
BatchNext ==
    /\ geoBatch.pc = "returned"
    /\ geoBatch' = IdleBatch
    /\ UNCHANGED <<now, pipelineVars, geoVars, txn, parseVars, tableVars, helperVars, gateVars>>

\* ------------------------------------------------------------ Store (reset)
\* reset-processing.js:8-21  one transaction: TRUNCATE TABLE locations CASCADE,
\* then UPDATE posts SET processing_status = 'pending'; run by a process of its
\* own against the database the server uses
ResetProcessing ==
    /\ \E id \in PostIds : posts[id] # "absent"
    /\ locations' = [id \in PostIds |-> NoRow]
    /\ posts' = [id \in PostIds |-> IF posts[id] = "absent" THEN "absent" ELSE "pending"]
    /\ UNCHANGED <<now, aiVars, procVars, inv, ret, aiRet>>
    /\ UNCHANGED <<geoVars, unitVars>>

\* ------------------------------------------------------------ Store (tables)
\* The two tables row by row.  A posts row is [id, text, created_at, media_urls,
\* processing_status, updated_at], a locations row is [post_id, coordinates,
\* extracted_location, updated_at] (part_005:22-60).
\* The Store is called at most MaxStoreCalls times.
MaxStoreCalls == 3
\* The ids of the tweets the tables are exercised with.
TableIds == {1, 2}

tPlain == <<Word>>
tCoords == <<[kind |-> "prefix", lat |-> Num(129, 4), lon |-> Num(776, 4)]>>

\* part_009:170-192  processTweets: the post object of a tweet.  Upstream tweets
\* with one id may differ in text, creation time and media.
PostObject(id, txt, createdAt, mediaUrls) ==
    [id |-> id, text |-> txt, createdAt |-> createdAt, mediaUrls |-> mediaUrls,
     coordinates |-> IF parseCoordinates(txt) = NoCoords THEN NoCoords
                     ELSE [lat |-> parseCoordinates(txt).lat,
                           lon |-> parseCoordinates(txt).lon, source |-> "regex"]]

\* What upstream returns for one tweet at two times: another creation time and
\* other media.
Versions == {<<1, "m1">>, <<2, "m2">>}

PostObjects ==
    {PostObject(id, txt, v[1], v[2]) :
        id \in TableIds, txt \in {tPlain, tCoords}, v \in Versions}

\* The items finalizePost saves (issueProcessor.js:94-99).
LocationItems ==
    {[id |-> id, coordinates |-> [lat |-> c[1], lon |-> c[2], source |-> "geocoded"],
      extractedLocation |-> sMGRoad] : id \in TableIds, c \in {<<129, 776>>, <<130, 777>>}}

HasPost(rows, id) == \E i \in 1..Len(rows) : rows[i].id = id
HasLocation(rows, postId) == \E i \in 1..Len(rows) : rows[i].post_id = postId

\* An upsert that overwrites the whole row on conflict.
UpsertPost_overwrite(rows, post, t) ==
    LET row == [id |-> post.id, text |-> post.text, created_at |-> post.createdAt,
                media_urls |-> post.mediaUrls, processing_status |-> "pending",
                updated_at |-> t]
    IN  IF HasPost(rows, post.id)
        THEN [i \in 1..Len(rows) |-> IF rows[i].id = post.id THEN row ELSE rows[i]]
        ELSE Append(rows, row)

\* part_005:111-117  INSERT INTO posts ... 'pending', NOW()
\*                   ON CONFLICT (id) DO UPDATE SET media_urls, updated_at
UpsertPost(rows, post, t) ==
    IF HasPost(rows, post.id)
    THEN [i \in 1..Len(rows) |->
            IF rows[i].id = post.id
            THEN [rows[i] EXCEPT !.media_urls = post.mediaUrls, !.updated_at = t]
            ELSE rows[i]]
    ELSE Append(rows, [id |-> post.id, text |-> post.text,
                       created_at |-> post.createdAt, media_urls |-> post.mediaUrls,
                       processing_status |-> "pending", updated_at |-> t])

\* An insert without its ON CONFLICT clause, on a table without the constraint.
UpsertLocation_insert(rows, postId, coordinates, extractedLocation, t) ==
    Append(rows, [post_id |-> postId, coordinates |-> coordinates,
                  extracted_location |-> extractedLocation, updated_at |-> t])

\* part_005:150-160  INSERT INTO locations ... ON CONFLICT (post_id) DO UPDATE SET
\*                   coordinates, extracted_location, updated_at
UpsertLocation(rows, postId, coordinates, extractedLocation, t) ==
    IF HasLocation(rows, postId)
    THEN [i \in 1..Len(rows) |->
            IF rows[i].post_id = postId
            THEN [rows[i] EXCEPT !.coordinates = coordinates,
                                 !.extracted_location = extractedLocation,
                                 !.updated_at = t]
            ELSE rows[i]]
    ELSE Append(rows, [post_id |-> postId, coordinates |-> coordinates,
                       extracted_location |-> extractedLocation, updated_at |-> t])

\* part_005:99-145  savePosts([post]): the post row, then its location when the
\* post object has coordinates, in one transaction
SavePostsCall ==
    /\ storeCall.n < MaxStoreCalls
    /\ \E post \in PostObjects :
        /\ postTable' = UpsertPost(postTable, post, now)
        /\ locTable' = IF post.coordinates # NoCoords
                       THEN UpsertLocation(locTable, post.id, post.coordinates, NullStr, now)
                       ELSE locTable
        /\ storeCall' = [op |-> "savePosts", id |-> post.id,
                         existed |-> HasPost(postTable, post.id), n |-> storeCall.n + 1]
    /\ UNCHANGED <<now, pipelineVars, geoVars, flowVars, parseVars, helperVars, gateVars>>

\* part_005:165-180  saveLocations([item]); the row references a post
\* (part_005:53 REFERENCES posts(id)): without one the insert fails and the
\* transaction is rolled back
SaveLocationsCall ==
    /\ storeCall.n < MaxStoreCalls
    /\ \E item \in LocationItems :
        /\ locTable' = IF HasPost(postTable, item.id)
                       THEN UpsertLocation(locTable, item.id, item.coordinates,
                                           item.extractedLocation, now)
                       ELSE locTable
        /\ storeCall' = [op |-> "saveLocations", id |-> item.id,
                         existed |-> HasLocation(locTable, item.id),
                         n |-> storeCall.n + 1]
    /\ UNCHANGED <<now, pipelineVars, geoVars, flowVars, parseVars, postTable, helperVars, gateVars>>

\* part_005:198-204  UPDATE posts SET processing_status = $1, updated_at = NOW()
\*                   WHERE id = $2
MarkCall ==
    /\ storeCall.n < MaxStoreCalls
    /\ \E id \in TableIds, status \in {"processed_no_issue", "processed_mapped"} :
        /\ postTable' = [i \in 1..Len(postTable) |->
                            IF postTable[i].id = id
                            THEN [postTable[i] EXCEPT !.processing_status = status,
                                                      !.updated_at = now]
                            ELSE postTable[i]]
        /\ storeCall' = [op |-> "markPostAsProcessed", id |-> id,
                         existed |-> HasPost(postTable, id), n |-> storeCall.n + 1]
    /\ UNCHANGED <<now, pipelineVars, geoVars, flowVars, parseVars, locTable, helperVars, gateVars>>

\* ------------------------------------------------------ Store (transactions)
\* A call saves at most MaxItems items.
MaxItems == 2

\* The post objects and the location items the calls are made with.
TxnPosts == {PostObject(id, txt, 1, "m1") : id \in TableIds, txt \in {tPlain, tCoords}}
TxnLocations ==
    {[id |-> id, coordinates |-> [lat |-> 130, lon |-> 777, source |-> "geocoded"],
      extractedLocation |-> sMGRoad] : id \in TableIds}
TxnArgs(op) ==
    {ArrayOf(items) :
        items \in UNION {[1..n -> IF op = "savePosts" THEN TxnPosts ELSE TxnLocations] :
                            n \in 0..MaxItems}}

\* part_005:100  !posts || posts.length === 0  (the length of an object that
\* is no array is undefined, and undefined === 0 is false)
NothingToSave(arg) == arg.kind = "array" /\ Len(arg.items) = 0

\* for (const post of posts): an object that is no array is not iterable
Iterable(arg) == arg.kind = "array"

\* part_005:100-106, 166-168  the call up to BEGIN: savePosts returns 0 at
\* once when there is nothing to save
StoreCallBegins(op, caller, arg) ==
    txn' = IF op = "savePosts" /\ NothingToSave(arg)
           THEN [IdleTxn EXCEPT !.pc = "returned", !.op = op, !.caller = caller,
                                !.arg = arg, !.beforePosts = postTable,
                                !.beforeLocs = locTable]
           ELSE [IdleTxn EXCEPT !.pc = "loop", !.op = op, !.caller = caller,
                                !.arg = arg, !.posts = postTable, !.locs = locTable,
                                !.beforePosts = postTable, !.beforeLocs = locTable]

\* A client calls savePosts(posts) or saveLocations(locationItems).
TxnCall ==
    /\ txn.pc = "idle"
    /\ \E op \in {"savePosts", "saveLocations"} :
        \E arg \in TxnArgs(op) : StoreCallBegins(op, "client", arg)
    /\ UNCHANGED <<now, pipelineVars, geoVars, geoBatch, parseVars, tableVars,
                   helperVars, gateVars>>

\* part_005:108-134, 169-171  the statements of the next item, inside the
\* transaction: they succeed, or one of them fails (the loop itself, when the
\* argument is not iterable; the insert of a location whose post is missing,
\* part_005:53 REFERENCES posts(id); any statement, the connection being lost)
TxnStatement ==
    /\ txn.pc = "loop"
    /\ \/ /\ Iterable(txn.arg)
          /\ txn.k < Len(txn.arg.items)
          /\ LET item == txn.arg.items[txn.k + 1] IN
             IF txn.op = "savePosts"
             THEN txn' = [txn EXCEPT
                    !.k = @ + 1,
                    !.count = @ + 1,
                    !.posts = UpsertPost(@, item, now),
                    !.locs = IF item.coordinates # NoCoords
                             THEN UpsertLocation(@, item.id, item.coordinates, NullStr, now)
                             ELSE @]
             ELSE IF HasPost(txn.posts, item.id)
                  THEN txn' = [txn EXCEPT
                         !.k = @ + 1,
                         !.locs = UpsertLocation(@, item.id, item.coordinates,
                                                 item.extractedLocation, now)]
                  ELSE txn' = [txn EXCEPT !.pc = "catch"]
       \/ /\ IF Iterable(txn.arg) THEN txn.k < Len(txn.arg.items) ELSE TRUE
          /\ txn' = [txn EXCEPT !.pc = "catch"]
    /\ UNCHANGED <<now, pipelineVars, geoVars, geoBatch, parseVars, tableVars,
                   helperVars, gateVars>>

\* A catch block without its ROLLBACK, on a connection that commits each
\* statement as it is made.
RolledBack_kept(before, work) == work

\* part_005:139, 175  await client.query('ROLLBACK'): the table after it
RolledBack(before, work) == before

\* part_005:136-137, 172-173  COMMIT, and the count is returned; or COMMIT fails
TxnCommit ==
    /\ txn.pc = "loop"
    /\ Iterable(txn.arg)
    /\ txn.k = Len(txn.arg.items)
    /\ \/ /\ postTable' = txn.posts
          /\ locTable' = txn.locs
          /\ txn' = [txn EXCEPT !.pc = "returned",
                                !.count = IF txn.op = "savePosts" THEN txn.count
                                          ELSE Len(txn.arg.items)]
       \/ /\ txn' = [txn EXCEPT !.pc = "catch"]
          /\ UNCHANGED <<postTable, locTable>>
    /\ UNCHANGED <<now, pipelineVars, geoVars, geoBatch, parseVars, storeCall,
                   helperVars, gateVars>>

\* part_005:138-144, 174-179  catch: ROLLBACK, throw error; finally: release
TxnRollback ==
    /\ txn.pc = "catch"
    /\ postTable' = RolledBack(postTable, txn.posts)
    /\ locTable' = RolledBack(locTable, txn.locs)
    /\ txn' = [txn EXCEPT !.pc = "thrown"]
    /\ UNCHANGED <<now, pipelineVars, geoVars, geoBatch, parseVars, storeCall,
                   helperVars, gateVars>>

\* The client has the count or the error and may call again.
TxnNext ==
    /\ txn.pc \in {"returned", "thrown"}
    /\ txn.caller = "client"
    /\ txn' = IdleTxn
    /\ UNCHANGED <<now, pipelineVars, geoVars, geoBatch, parseVars, tableVars,
                   helperVars, gateVars>>

\* ---------------------------------------------------------------- Ingestion
\* part_005:249-252  SELECT id FROM posts ORDER BY id DESC LIMIT 1  (0: no row)
LatestStoredId(rows) ==
    IF Len(rows) = 0 THEN 0
    ELSE CHOOSE id \in TableIds :
            HasPost(rows, id) /\ \A j \in TableIds : HasPost(rows, j) => j <= id

\* part_009:13-55  fetchRecentTweets(sinceId): the tweets newer than sinceId,
\* up to the newest one posted so far (hi), each with some text
NewTweets(sinceId, hi) ==
    {tweets \in [1..(hi - sinceId) -> TxnPosts] :
        \A j \in 1..(hi - sinceId) : tweets[j].id = sinceId + j}

HasCoordinates(post) == post.coordinates # NoCoords
NoCoordinates(post) == post.coordinates = NoCoords

\* part_009:162-246  processTweets(tweetsData) returns { withCoords, missingCoords }
processTweets(tweets) ==
    [kind |-> "object",
     withCoords |-> SelectSeq(tweets, HasCoordinates),
     missingCoords |-> SelectSeq(tweets, NoCoordinates)]

\* server.js:27-45  runIngestion: the new tweets are fetched and processed, and
\* db.savePosts(processedData) is called (no call when there is no new tweet)
RunIngestion ==
    /\ txn.pc = "idle"
    /\ \E hi \in TableIds :
        /\ hi > LatestStoredId(postTable)
        /\ \E tweets \in NewTweets(LatestStoredId(postTable), hi) :
            LET processedData == processTweets(tweets) IN
            StoreCallBegins("savePosts", "runIngestion", processedData)
    /\ UNCHANGED <<now, pipelineVars, geoVars, geoBatch, parseVars, tableVars,
                   helperVars, gateVars>>

\* part_000:5-32  the fetchTweets script:
\* db.savePosts([...processedData.withCoords, ...processedData.missingCoords])
FetchTweetsScript ==
    /\ txn.pc = "idle"
    /\ \E hi \in TableIds :
        /\ hi > LatestStoredId(postTable)
        /\ \E tweets \in NewTweets(LatestStoredId(postTable), hi) :
            LET processedData == processTweets(tweets)
                allPosts == processedData.withCoords \o processedData.missingCoords
            IN  StoreCallBegins("savePosts", "fetchTweets", ArrayOf(allPosts))
    /\ UNCHANGED <<now, pipelineVars, geoVars, geoBatch, parseVars, tableVars,
                   helperVars, gateVars>>

\* server.js:45-50, part_000:32-40  savePosts returned, or it threw and the
\* catch block logged the error: the run is over
IngestionEnds ==
    /\ txn.pc \in {"returned", "thrown"}
    /\ txn.caller \in {"runIngestion", "fetchTweets"}
    /\ txn' = IdleTxn
    /\ UNCHANGED <<now, pipelineVars, geoVars, geoBatch, parseVars, tableVars,
                   helperVars, gateVars>>

\* ------------------------------------------- AiAnalysisService (helper calls)
\* aiAnalysisService.js:163-173  the location of one element is sanitized
SanitizeCall ==
    /\ \E raw \in LocationInputs :
        /\ rawLocation' = raw
        /\ sanitized' = SanitizeLocation(raw)
    /\ UNCHANGED <<now, pipelineVars, geoVars, flowVars, parseVars, tableVars, retryArgs, retryDelay, gateVars>>

\* aiAnalysisService.js:199-202  a transient failure with retries left: the delay
\* before analyzeBatch(tweets, retryCount + 1)
DelayCall ==
    /\ \E errorMsg \in DelayMessages, retryCount \in 0..maxRetries :
        /\ ~isDailyQuotaExhausted(errorMsg)
        /\ ShouldRetry(errorMsg, retryCount)
        /\ retryArgs' = [errorMsg |-> errorMsg, retryCount |-> retryCount]
        /\ retryDelay' = RetryDelay(errorMsg, retryCount)
    /\ UNCHANGED <<now, pipelineVars, geoVars, flowVars, parseVars, tableVars, rawLocation, sanitized, gateVars>>

\* --------------------------------------------- AiAnalysisService (rate gate)
\* The clock of the classifier's client.
AiTick ==
    /\ now < MaxAiTicks * AiTickMs
    /\ now' = now + AiTickMs
    /\ UNCHANGED <<pipelineVars, geoVars, unitVars>>

\* A rate gate that never waits.
AiMustWait_never(timeSinceLastCall) == FALSE

\* aiAnalysisService.js:50  if (timeSinceLastCall < this.minInterval)
AiMustWait(timeSinceLastCall) ==
    timeSinceLastCall < aiMinInterval

\* aiAnalysisService.js:54, 106-130  rateLimit is through: lastCallTime is set
\* and the request is sent, in the same turn
AiIssueRequest(call) ==
    /\ aiLastCallTime' = now
    /\ aiRequests' = Append(aiRequests, now)
    /\ aiCall' = [call EXCEPT !.pc = "generateContent", !.wakeAt = 0]

\* aiAnalysisService.js:103-104, 46-55  analyzeBatch up to its first await:
\* rateLimit waits for its timer or lets the request go
AiEnterGate(call) ==
    LET timeSinceLastCall == now - aiLastCallTime IN
    IF AiMustWait(timeSinceLastCall)
    THEN /\ aiCall' = [call EXCEPT !.pc = "rateLimit",
                                   !.wakeAt = now + (aiMinInterval - timeSinceLastCall),
                                   !.waited = TRUE]
         /\ UNCHANGED <<aiLastCallTime, aiRequests>>
    ELSE AiIssueRequest(call)

\* aiAnalysisService.js:90-104  analyzeBatch(tweets) of a batch of size tweets
AiCallStart ==
    /\ aiCall.pc = "idle"
    /\ Len(aiRequests) < MaxAiRequests
    /\ \E size \in 1..NumPosts :
        AiEnterGate([IdleAiCall EXCEPT !.size = size])
    /\ UNCHANGED <<now, pipelineVars, geoVars, flowVars, parseVars, tableVars, helperVars>>

\* aiAnalysisService.js:51-54  the timer of rateLimit fired (no earlier than due)
AiTimerFires ==
    /\ aiCall.pc = "rateLimit"
    /\ now >= aiCall.wakeAt
    /\ AiIssueRequest(aiCall)
    /\ UNCHANGED <<now, pipelineVars, geoVars, flowVars, parseVars, tableVars, helperVars>>

\* aiAnalysisService.js:131-208  the request settled: analyzeBatch returns, or
\* waits before it retries a transient failure
AiRequestSettles ==
    /\ aiCall.pc = "generateContent"
    /\ \/ aiCall' = IdleAiCall
       \/ \E errorMsg \in {m429, mRetryQ} :
            /\ ShouldRetry(errorMsg, aiCall.retryCount)
            /\ aiCall' = [aiCall EXCEPT !.pc = "backoff",
                            !.wakeAt = now + RetryDelay(errorMsg, aiCall.retryCount)]
    /\ UNCHANGED <<now, aiLastCallTime, aiRequests>>
    /\ UNCHANGED <<pipelineVars, geoVars, flowVars, parseVars, tableVars, helperVars>>

\* aiAnalysisService.js:202-203  the backoff timer fired:
\* analyzeBatch(tweets, retryCount + 1)
AiBackoffFires ==
    /\ aiCall.pc = "backoff"
    /\ now >= aiCall.wakeAt
    /\ Len(aiRequests) < MaxAiRequests
    /\ AiEnterGate([aiCall EXCEPT !.retryCount = @ + 1])
    /\ UNCHANGED <<now, pipelineVars, geoVars, flowVars, parseVars, tableVars, helperVars>>

\* ------------------------------------------------------ TwitterService (calls)
\* part_009:171  const coords = this.parseCoordinates(tweet.text)
ParseCall ==
    /\ parsed = NotCalled
    /\ \E txt \in Texts :
        /\ text' = txt
        /\ parsed' = parseCoordinates(txt)
    /\ UNCHANGED <<now, pipelineVars, geoVars, flowVars, tableVars, helperVars, gateVars>>

\* part_009:170-192  the loop of processTweets goes on to the next tweet
ParseNext ==
    /\ parsed # NotCalled
    /\ text' = NoText
    /\ parsed' = NotCalled
    /\ UNCHANGED <<now, pipelineVars, geoVars, flowVars, tableVars, helperVars, gateVars>>

Next ==
    \/ Tick
    \/ FetchTweets
    \/ \E c \in Callers : ProcessQueue(c)

Spec == Init /\ [][Next]_vars

\* The classifier alone, called directly.
NextAi ==
    \/ Tick
    \/ DirectCall
    \/ AnalyzeBatchEntry(Direct)
    \/ ResponseArrives(Direct)
    \/ RequestFails(Direct)
    \/ BackoffDone(Direct)
    \/ DirectReturn

SpecAi == Init /\ [][NextAi]_vars

\* The geocoder alone, its clients calling geocode() whenever they like.
NextGeo ==
    \/ GeoTick
    \/ \E k \in GeoClients :
        \/ GeoCall(k)
        \/ TimerFires(k)
        \/ GeoResponse(k)
        \/ GeoReturn(k)

SpecGeo == Init /\ [][NextGeo]_vars

\* The geocoder with one client, which awaits each call before the next
\* (twitterService.js:304-320 geocodeBatch; issueProcessor.js:59-63, 89).
NextGeoSeq ==
    \/ GeoTick
    \/ GeoCall("c1")
    \/ TimerFires("c1")
    \/ GeoResponse("c1")
    \/ GeoReturn("c1")

SpecGeoSeq == Init /\ [][NextGeoSeq]_vars

\* The server and the reset script, run at any time.
NextReset ==
    \/ Next
    \/ ResetProcessing

SpecReset == Init /\ [][NextReset]_vars

\* savePosts and saveLocations called by one client, one call after the other.
NextTxn ==
    \/ TxnCall
    \/ TxnStatement
    \/ TxnCommit
    \/ TxnRollback
    \/ TxnNext

SpecTxn == Init /\ [][NextTxn]_vars

\* The two ingestion paths, one run after the other.
NextIngestion ==
    \/ RunIngestion
    \/ FetchTweetsScript
    \/ TxnStatement
    \/ TxnCommit
    \/ TxnRollback
    \/ IngestionEnds

SpecIngestion == Init /\ [][NextIngestion]_vars

\* geocodeBatch called by one client, one list after the other.
NextGeoBatch ==
    \/ GeoTick
    \/ BatchStart
    \/ BatchSkip
    \/ BatchGeocode
    \/ TimerFires("c1")
    \/ GeoResponse("c1")
    \/ BatchCollect
    \/ BatchReturn
    \/ BatchNext

SpecGeoBatch == Init /\ [][NextGeoBatch]_vars

\* The coordinate parser alone, called with one text after the other.
NextParse == ParseCall \/ ParseNext

SpecParse == Init /\ [][NextParse]_vars

\* The Store alone, called by its clients one call after the other.
NextStore ==
    \/ Tick
    \/ SavePostsCall
    \/ SaveLocationsCall
    \/ MarkCall

SpecStore == Init /\ [][NextStore]_vars

\* The helpers of the classifier alone: each is applied to one input after the
\* other.
NextAiHelpers == SanitizeCall \/ DelayCall

SpecAiHelpers == Init /\ [][NextAiHelpers]_vars

\* The classifier's rate gate with one client, which awaits each call before
\* the next (issueProcessor.js:18-49: one cycle at a time calls analyzeBatch).
NextAiGate ==
    \/ AiTick
    \/ AiCallStart
    \/ AiTimerFires
    \/ AiRequestSettles
    \/ AiBackoffFires

SpecAiGate == Init /\ [][NextAiGate]_vars

\* The classifier alone, every request settling and every timer firing.
SpecAiFair ==
    /\ SpecAi
    /\ WF_vars(AnalyzeBatchEntry(Direct))
    /\ WF_vars(ResponseArrives(Direct) \/ RequestFails(Direct))
    /\ WF_vars(BackoffDone(Direct))

\* issueProcessor.js:39-112  the continuations of a cycle in flight: every await
\* of processQueue settles (the Store and the classifier answer or fail, the
\* lookup has a 5 s timeout, the timers fire)
CycleStep(c) ==
    \/ PendingPostsArrive(c)
    \/ AnalyzeBatchEntry(c)
    \/ ResponseArrives(c)
    \/ RequestFails(c)
    \/ BackoffDone(c)
    \/ AfterAnalyze(c)
    \/ FinalizeNext(c)
    \/ GeocodeReturns(c)
    \/ LocationSaved(c)
    \/ ThrottleDone(c)
    \/ PostMarked(c)

\* The pipeline under repeated invocations: the continuous loop calls
\* processQueue again after every result (server.js:172-199), so a cycle starts
\* whenever both guards stay open, and every cycle in flight goes on.
SpecFair ==
    /\ Spec
    /\ WF_vars(\E c \in Callers : StartCycle(c))
    /\ \A c \in Callers : WF_vars(CycleStep(c))

\* ===================================================================== claims
\* An invocation of processQueue is in flight: it is suspended at an await.
InFlight(c) == inv[c].pc # "idle"

\* The message carries one of the three hard daily-quota signatures.
HardQuotaSignature(msg) ==
    \/ Includes(msg, <<"l","i","m","i","t",":"," ","0">>)
    \/ Includes(msg, <<"P","e","r","D","a","y","P","e","r","P","r","o","j","e","c","t">>)
    \/ Includes(msg, <<"e","x","c","e","e","d","e","d"," ","y","o","u","r"," ",
                       "c","u","r","r","e","n","t"," ","q","u","o","t","a">>)

\* The message is a rate-limit error that is not a hard daily-quota one.
TransientError(msg) ==
    /\ Includes(msg, <<"4","2","9">>) \/ Includes(msg, <<"q","u","o","t","a">>)
    /\ ~HardQuotaSignature(msg)

\* ------------------------------------------------------------------------ C1
\* C1: processQueue() is single-flight.  For every interleaving of the loop and
\* the HTTP triggers at most one cycle is in flight; a call made while a cycle
\* is in flight starts no cycle and returns {skipped: true, reason:
\* 'already_processing'} having issued no Store read and no Store write, and
\* leaves the Store, the classifier and the processor as they were.
C1_SingleFlight ==
    /\ [](Cardinality({c \in Callers : InFlight(c)}) <= 1)
    /\ [][\A c \in Callers :
            (~InFlight(c) /\ \E d \in Callers \ {c} : InFlight(d)) =>
                /\ inv'[c].pc = "idle"
                /\ (ret' # ret /\ inv' = inv) =>
                      /\ ret'.skipped
                      /\ ret'.reason = "already_processing"
                      /\ ret'.reads = 0
                      /\ ret'.writes = 0
                      /\ UNCHANGED <<storeVars, aiVars, procVars>>]_vars

\* A call was answered 'already_processing' while the cycle in flight is writing
\* a post's status.
C1_Witness ==
    /\ ret.returned /\ ret.reason = "already_processing"
    /\ \E c \in Callers : inv[c].pc = "markPostAsProcessed"

\* ------------------------------------------------------------------------ C2
\* C2: a post leaves 'pending' only on a terminal decision.  A post whose batch
\* the classifier failed on (unparseable response, retries exhausted, another
\* upstream error) or whose geocode request failed (network or parse error) is
\* left 'pending': no step takes it out of 'pending'.
C2_PendingOnFailure ==
    [][\A c \in Callers :
        (/\ inv[c].pc = "markPostAsProcessed"
         /\ \/ inv[c].queue[1].origin \in {"unparseable", "retries_exhausted", "error"}
            \/ inv[c].geo = "error")
        => posts'[inv[c].queue[1].id] = posts[inv[c].queue[1].id]]_vars

\* ------------------------------------------------------------------------ C3
\* C3: in every reachable state no Location row exists for a post whose status
\* is 'pending'.
C3_NoLocationForPending ==
    \A id \in PostIds : posts[id] = "pending" => locations[id] = NoRow

\* ------------------------------------------------------------------------ C4
\* C4: a processQueue() call made while the classifier's quota is exhausted (the
\* flag set, the reset time not passed) and no cycle is in flight returns
\* {skipped: true, reason: 'quota_exhausted', minutesUntilReset}, having issued
\* no Store read or write and no classifier or geocoder request; it starts no
\* cycle and isProcessing stays false.
C4_QuotaSkip ==
    /\ [](ret.reason = "quota_exhausted" =>
            /\ ret.skipped
            /\ ret.minutesUntilReset >= 0
            /\ ret.reads = 0 /\ ret.writes = 0
            /\ ~ret.usedAi /\ ret.geoReqs = 0)
    /\ [][(/\ quotaExhausted /\ now <= quotaResetTime
           /\ \A d \in Callers : ~InFlight(d)
           /\ ret' # ret \/ inv' # inv)
          => /\ ret'.skipped
             /\ ret'.reason = "quota_exhausted"
             /\ ret'.minutesUntilReset = (quotaResetTime - now + 59999) \div 60000
             /\ ~isProcessing'
             /\ UNCHANGED <<storeVars, aiVars, inv>>]_vars

\* A call was skipped a full hour before the reset, a post waiting in the Store.
C4_Witness ==
    /\ ret.returned /\ ret.reason = "quota_exhausted"
    /\ ret.minutesUntilReset = 60
    /\ \E id \in PostIds : posts[id] = "pending"

\* ------------------------------------------------------------------------ C5
\* C5: when the classifier's result for the batch is tagged skipped, the cycle
\* ends there with {skipped: true, reason: 'quota_exhausted_mid_cycle'}: every
\* fetched post is still 'pending', the Store is untouched, the cycle issued no
\* Store write and no geocode request, and isProcessing is false on return.
C5_MidCycleAbort ==
    [][\A c \in Callers :
        (/\ inv[c].pc = "analyzed"
         /\ inv[c].queue # <<>>
         /\ inv[c].queue[1].skipped
         /\ inv'[c] # inv[c])
        => /\ ret'.returned /\ ret'.skipped
           /\ ret'.reason = "quota_exhausted_mid_cycle"
           /\ ret'.writes = 0 /\ ret'.geoReqs = 0 /\ ret'.processed = 0
           /\ ~isProcessing'
           /\ inv'[c].pc = "idle"
           /\ UNCHANGED storeVars
           /\ \A k \in 1..Len(inv[c].pendingPosts) :
                posts'[inv[c].pendingPosts[k]] = "pending"]_vars

\* A cycle that had fetched two posts was aborted mid-cycle after a request.
C5_Witness ==
    /\ ret.returned /\ ret.reason = "quota_exhausted_mid_cycle"
    /\ ret.fetched >= 2 /\ ret.usedAi

\* ------------------------------------------------------------------------ C6
\* C6: a top-level analyzeBatch call that finds the quota flag set and the reset
\* time not passed issues no upstream request and returns every post of its
\* batch tagged skipped.
C6_SkippedWhileExhausted ==
    /\ inv[Direct].quotaAtCall =>
          /\ inv[Direct].pc = "analyzed"
          /\ inv[Direct].aiReqs = 0
          /\ Len(inv[Direct].queue) = Len(inv[Direct].pendingPosts)
          /\ \A k \in 1..Len(inv[Direct].queue) :
                /\ inv[Direct].queue[k].skipped
                /\ inv[Direct].queue[k].id = inv[Direct].pendingPosts[k]
    /\ aiRet.quotaAtCall =>
          /\ aiRet.aiReqs = 0
          /\ Len(aiRet.results) = Len(aiRet.tweets)
          /\ \A k \in 1..Len(aiRet.results) : aiRet.results[k].skipped

\* A call with two posts, made at the reset time itself, returned them skipped.
C6_Witness ==
    /\ aiRet.returned /\ aiRet.quotaAtCall
    /\ Len(aiRet.results) >= 2
    /\ now = quotaResetTime

\* ------------------------------------------------------------------------ C7
\* C7: when a request of analyzeBatch fails with a hard daily-quota signature,
\* that step sets quotaExhausted, sets quotaResetTime to now + 1 hour, and
\* returns every post tagged skipped without a retry or a further request,
\* whatever the retry count.
C7_HardQuotaStops ==
    [][\A i \in Invocations :
        (/\ inv[i].pc = "generateContent"
         /\ inv'[i].pc # "generateContent"
         /\ HardQuotaSignature(inv'[i].lastError))
        => /\ quotaExhausted'
           /\ quotaResetTime' = now + 60 * 60 * 1000
           /\ inv'[i].pc = "analyzed"
           /\ inv'[i].aiReqs = inv[i].aiReqs
           /\ inv'[i].delays = inv[i].delays
           /\ Len(inv'[i].queue) = Len(inv[i].pendingPosts)
           /\ \A k \in 1..Len(inv'[i].queue) :
                /\ inv'[i].queue[k].skipped
                /\ ~inv'[i].queue[k].isIssue
                /\ inv'[i].queue[k].id = inv[i].pendingPosts[k]]_vars

\* The third request of a call (retry count 2) failed with 'limit: 0'.
C7_Witness ==
    /\ inv[Direct].pc = "analyzed"
    /\ inv[Direct].lastError = mLimit0
    /\ inv[Direct].aiReqs = 3
    /\ quotaExhausted /\ quotaResetTime = now + 60 * 60 * 1000

\* ------------------------------------------------------------------------ C8
\* C8: a top-level analyzeBatch call issues at most 1 + maxRetries = 4 requests
\* and waits one backoff between two of them; it returns.  A call whose last
\* request succeeded returns that response's result, no post skipped; a call
\* whose last request failed with a transient error made 4 requests and returns
\* every post isIssue: false, not skipped.
C8_BoundedRetry ==
    /\ [](/\ inv[Direct].aiReqs <= 4
          /\ inv[Direct].retryCount <= 3
          /\ inv[Direct].pc = "backoff" => inv[Direct].delays = inv[Direct].aiReqs
          /\ inv[Direct].pc = "generateContent" =>
                inv[Direct].delays = inv[Direct].aiReqs - 1)
    /\ []((aiRet.returned /\ aiRet.aiReqs >= 1) =>
          /\ aiRet.delays = aiRet.aiReqs - 1
          /\ Len(aiRet.results) = Len(aiRet.tweets)
          /\ aiRet.lastError = NoError =>
                \A k \in 1..Len(aiRet.results) :
                    /\ ~aiRet.results[k].skipped
                    /\ aiRet.results[k].origin \in {"model", "unparseable"}
                    /\ aiRet.results[k].id = aiRet.tweets[k]
          /\ TransientError(aiRet.lastError) =>
                /\ aiRet.aiReqs = 4
                /\ \A k \in 1..Len(aiRet.results) :
                    /\ ~aiRet.results[k].skipped
                    /\ ~aiRet.results[k].isIssue
                    /\ aiRet.results[k].location = NullStr)
    /\ (inv[Direct].pc = "analyzeBatch") ~> (inv[Direct].pc = "analyzed")

\* Two requests failed, the third succeeded: the call returned the model's
\* result, an issue with its location, after exactly two backoffs.
C8_Witness ==
    /\ aiRet.returned /\ aiRet.lastError = NoError
    /\ aiRet.aiReqs = 3 /\ aiRet.delays = 2
    /\ \E k \in 1..Len(aiRet.results) :
        aiRet.results[k].origin = "model" /\ aiRet.results[k].isIssue

\* ------------------------------------------------------------------------ C9
\* C9: once the quota reset time has passed, the next getStatus() reports
\* quotaExhausted false and the next isQuotaExhausted() returns false.
C9_SelfClears ==
    (quotaResetTime # NoTime /\ now > quotaResetTime) =>
        /\ ~getStatus.quotaExhausted
        /\ ~isQuotaExhausted

\* ----------------------------------------------------------------------- C10
\* What finalizePost decided for the post whose status the step of c writes.
DecisionTable(c) ==
    LET post == inv[c].queue[1] IN
    /\ posts' = [posts EXCEPT ![post.id] = posts'[post.id]]
    /\ UNCHANGED locations
    /\ IF post.isIssue /\ post.location # NullStr /\ post.location # <<>>
       THEN IF inv[c].geo = "hit"
            THEN /\ posts'[post.id] = "processed_mapped"
                 /\ inv[c].coords.source = "geocoded"
                 /\ locations[post.id] = [coordinates |-> inv[c].coords,
                                          extractedLocation |-> post.location]
                 /\ inv[c].postWrites = 2
            ELSE /\ inv[c].geo \in {"miss", "error"}
                 /\ posts'[post.id] = "processed_no_issue"
                 /\ inv[c].postWrites = 1
       ELSE /\ inv[c].geo = "none"
            /\ posts'[post.id] = "processed_no_issue"
            /\ inv[c].postWrites = 1

\* Every status finalizePost writes follows its decision table.
DecisionTableHolds ==
    [][\A c \in Callers :
        (/\ inv[c].pc = "markPostAsProcessed"
         /\ inv'[c].processedCount = inv[c].processedCount + 1)
        => DecisionTable(c)]_vars

\* C10: finalizePost geocodes a post iff it is an issue with a location; on a
\* hit it saves a Location row (the coordinates with source 'geocoded', the
\* location string as extractedLocation) and marks the post 'processed_mapped';
\* otherwise it marks the post 'processed_no_issue' and writes no Location.  A
\* cycle marks a post 'processed_mapped' iff it saved a Location for it: no
\* cycle ends having saved a Location for a post it did not mark.
C10_MappedIffSaved ==
    [][\A c \in Callers :
        /\ (/\ inv[c].pc = "markPostAsProcessed"
            /\ inv'[c].processedCount = inv[c].processedCount + 1)
           => DecisionTable(c)
        /\ (InFlight(c) /\ inv'[c].pc = "idle" /\ inv[c].locationSaved)
           => posts'[inv[c].queue[1].id] = "processed_mapped"]_vars

\* ----------------------------------------------------------------------- C11
\* C11: a post whose text carries explicit coordinates takes the parser path:
\* it is in no batch submitted to the classifier, no geocode request is made
\* for it, and it leaves 'pending' as 'processed_mapped' with a Location whose
\* source is 'explicit'.
C11_ParserPath ==
    \A id \in PostIds :
        TweetCoordinates(id) # NoCoords =>
            /\ \A c \in Callers :
                /\ inv[c].pc \in {"analyzeBatch", "generateContent", "backoff", "analyzed"}
                      => \A k \in 1..Len(inv[c].pendingPosts) : inv[c].pendingPosts[k] # id
                /\ inv[c].pc = "geocode" => inv[c].queue[1].id # id
            /\ posts[id] # "processed_no_issue"
            /\ posts[id] = "processed_mapped" =>
                  /\ locations[id] # NoRow
                  /\ locations[id].coordinates.source = "explicit"

\* ----------------------------------------------------------------------- C12
\* The posts a cycle has fetched and not yet finalized.
Unfinalized(c) ==
    IF inv[c].pc \in {"analyzeBatch", "generateContent", "backoff"}
    THEN {inv[c].pendingPosts[k] : k \in 1..Len(inv[c].pendingPosts)}
    ELSE {inv[c].queue[k].id : k \in 1..Len(inv[c].queue)}

\* C12: a post's status changes at most once, from 'pending' to
\* 'processed_no_issue' or 'processed_mapped': no step changes a non-pending
\* status or removes a post, and every post a cycle holds to classify, geocode
\* or mark is 'pending' (a non-pending post is never fetched again).
C12_StatusOnce ==
    /\ [](\A c \in Callers : \A id \in Unfinalized(c) : posts[id] = "pending")
    /\ [][\A id \in PostIds :
            /\ posts[id] \in {"processed_no_issue", "processed_mapped"}
                  => posts'[id] = posts[id]
            /\ posts[id] = "pending"
                  => posts'[id] \in {"pending", "processed_no_issue", "processed_mapped"}]_vars

\* Post 1 is processed and a later cycle, which fetched post 2 only, is writing
\* the status of post 2.
C12_Witness ==
    /\ posts[1] \in {"processed_no_issue", "processed_mapped"}
    /\ \E c \in Callers :
        inv[c].pc = "markPostAsProcessed" /\ inv[c].pendingPosts = <<2>>

\* ----------------------------------------------------------------------- C13
\* The step is one of invocation c at a Store write of finalizePost that does
\* not apply the write: the call failed.
StoreWriteFails(c) ==
    /\ inv'[c] # inv[c]
    /\ \/ inv[c].pc = "saveLocations" /\ ~inv'[c].locationSaved
       \/ /\ inv[c].pc = "markPostAsProcessed"
          /\ posts'[inv[c].queue[1].id] = "pending"

\* The step is one of invocation c whose Store call (the read of the pending
\* posts, or a write of finalizePost) failed.
StoreCallFails(c) ==
    \/ StoreWriteFails(c)
    \/ inv[c].pc = "getPendingPosts" /\ inv'[c].pc = "idle" /\ ret'.reason = "none"

\* The posts invocation c fetched.
Fetched(c) == {inv[c].pendingPosts[k] : k \in 1..Len(inv[c].pendingPosts)}

Terminal(id) == posts[id] \in {"processed_no_issue", "processed_mapped"}

\* A cycle that got a non-skipped classification ends only by a failed Store
\* call or with every post it fetched finalized.
CycleFinalizesAll ==
    [][\A c \in Callers :
        (/\ inv[c].pc \in {"finalize", "geocode", "saveLocations", "throttle",
                            "markPostAsProcessed"}
         /\ inv'[c].pc = "idle"
         /\ ~StoreCallFails(c)) =>
            /\ \A id \in Fetched(c) : Terminal(id)'
            /\ ret'.processed = Len(inv[c].pendingPosts)
            /\ ret'.returned /\ ~ret'.skipped]_vars

\* C13: a pending post is passed over only by the two guards at the top of a
\* cycle.  A cycle that passes them and gets a non-skipped classification
\* finalizes every post it fetched unless a Store call fails; and under
\* repeated invocations, if from some time on the quota flag is clear and the
\* Store calls succeed, every pending post reaches a terminal status.
C13_PendingEventuallyTerminal ==
    /\ CycleFinalizesAll
    /\ (/\ <>[](~isQuotaExhausted)
        /\ <>[][\A c \in Callers : ~StoreCallFails(c)]_vars)
          => \A id \in PostIds : (posts[id] = "pending") ~> Terminal(id)

\* Both posts were pending, one cycle fetched them and finalized the two of them.
C13_Witness ==
    /\ \A id \in PostIds : Terminal(id)
    /\ ret.returned /\ ~ret.skipped /\ ret.reason = "none"
    /\ ret.fetched = NumPosts /\ ret.processed = NumPosts
    /\ lastProcessedCount = NumPosts

\* ----------------------------------------------------------------------- C14
\* C14: isProcessing is true exactly while a cycle is in flight: every call
\* that set it returns a result to its caller, on every exit path (no pending
\* post, mid-cycle abort, completion, exception), with isProcessing false.
C14_EndsIdle ==
    /\ isProcessing <=> \E c \in Callers : InFlight(c)
    /\ (ret.returned /\ ret.reason # "already_processing") =>
          (isProcessing <=> \E c \in Callers : inv[c].pc = "getPendingPosts")

\* A cycle that had fetched two posts ended on an exception after two Store
\* writes: it returned {skipped: false} and isProcessing is false.
C14_Witness ==
    /\ ret.returned /\ ~ret.skipped /\ ret.reason = "none"
    /\ ret.fetched = 2 /\ ret.processed < 2 /\ ret.writes >= 2
    /\ ~isProcessing

\* ----------------------------------------------------------------------- C15
\* C15: when a Store call of finalizePost fails, the cycle ends there: the
\* Store is left as it was, the posts of the batch finalized before have a
\* terminal status, the failing post and the later ones are 'pending' and are
\* what the next getPendingPosts returns, and the cycle issues no further
\* write or geocode request.
C15_AbortKeepsRest ==
    [][\A c \in Callers :
        StoreWriteFails(c)
        => LET batch == inv[c].pendingPosts
               rest == inv[c].queue
               done == Len(batch) - Len(rest)
           IN  /\ inv'[c].pc = "idle"
               /\ UNCHANGED storeVars
               /\ \A k \in 1..done :
                    posts'[batch[k]] \in {"processed_no_issue", "processed_mapped"}
               /\ \A k \in 1..Len(rest) :
                    /\ posts'[rest[k].id] = "pending"
                    /\ \E j \in 1..Len(getPendingPosts(BatchLimit)) :
                          getPendingPosts(BatchLimit)[j] = rest[k].id
               /\ ret'.returned /\ ~ret'.skipped
               /\ ret'.processed = done
               /\ ret'.writes = inv[c].writes
               /\ ret'.geoReqs = inv[c].geoReqs
               /\ ~isProcessing']_vars

\* The Store failed on the second post of a batch of two: post 1 is processed,
\* post 2 is pending.
C15_Witness ==
    /\ ret.returned /\ ~ret.skipped /\ ret.reason = "none"
    /\ ret.fetched = 2 /\ ret.processed = 1
    /\ posts[1] \in {"processed_no_issue", "processed_mapped"}
    /\ posts[2] = "pending"

\* ----------------------------------------------------------------------- C16
\* One result per tweet, with the tweet's id; a tweet the response has no
\* element for is no issue and has no location.
OnePerPost(tweets, results, response) ==
    /\ Len(results) = Len(tweets)
    /\ \A k \in 1..Len(tweets) :
        /\ results[k].id = tweets[k]
        /\ (response # <<>> /\ response[tweets[k]] = [missing |-> TRUE]) =>
              /\ ~results[k].isIssue
              /\ results[k].location = NullStr
              /\ ~results[k].skipped

\* C16: on every outcome analyzeBatch returns exactly one result per input
\* post, carrying that post's id; a post whose id is absent from the model's
\* response gets isIssue false and no location.
C16_OneResultPerPost ==
    /\ inv[Direct].pc = "analyzed" =>
          OnePerPost(inv[Direct].pendingPosts, inv[Direct].queue, inv[Direct].response)
    /\ aiRet.returned => OnePerPost(aiRet.tweets, aiRet.results, aiRet.response)

\* A call with two posts returned: the response had an element for one of
\* them only, an issue.
C16_Witness ==
    /\ aiRet.returned /\ Len(aiRet.results) >= 2 /\ aiRet.response # <<>>
    /\ \E k, j \in 1..Len(aiRet.tweets) :
        /\ aiRet.response[aiRet.tweets[k]] = [missing |-> TRUE]
        /\ aiRet.response[aiRet.tweets[j]] # [missing |-> TRUE]
        /\ aiRet.results[j].isIssue

\* ----------------------------------------------------------------------- C17
\* The string is null, empty or made of spaces only.
Blank(str) ==
    \/ str = NullStr
    \/ \A i \in 1..Len(str) : str[i] = " "

\* C17: a geocode call with null, empty or whitespace-only input returns null
\* at once: it issues no lookup request, does not wait on the rate gate and
\* leaves lastCallTime unchanged.
C17_EmptyInputNoRequest ==
    [][\A k \in GeoClients :
        (/\ calls[k].pc = "idle"
         /\ calls'[k].pc # "idle"
         /\ Blank(calls'[k].input))
        => /\ calls'[k].pc = "done"
           /\ calls'[k].result = NoCoords
           /\ calls'[k].reqs = 0
           /\ ~calls'[k].waited
           /\ lastCallTime' = lastCallTime
           /\ requests' = requests]_vars

\* A call with '  ' returned while another client's call waits on the gate.
C17_Witness ==
    \E k, j \in GeoClients :
        /\ calls[k].pc = "done" /\ calls[k].input = sSpaces
        /\ calls[j].pc = "rateLimit"

\* ----------------------------------------------------------------------- C18
\* C18: when one client awaits each geocode call before the next, every two
\* successive lookup requests are issued at least 1100 ms apart, so the first
\* and the last of N requests are at least (N - 1) x 1100 ms apart.
C18_SequentialGap ==
    /\ \A i \in 1..(Len(requests) - 1) : requests[i + 1] - requests[i] >= 1100
    /\ Len(requests) >= 1 =>
          requests[Len(requests)] - requests[1] >= (Len(requests) - 1) * 1100

\* Three requests were issued, exactly 1100 ms after one another.
C18_Witness ==
    /\ Len(requests) = 3
    /\ requests[3] - requests[1] = 2200
    /\ calls["c1"].waited

\* ----------------------------------------------------------------------- C19
\* C19: whichever clients call geocode and however their calls overlap, no two
\* lookup requests are issued less than 1100 ms apart.
C19_SharedGate ==
    \A i, j \in 1..Len(requests) :
        i < j => requests[j] - requests[i] >= 1100

\* ----------------------------------------------------------------------- C20
\* C20: a geocode call returns null or {lat, lon, displayName, source:
\* 'geocoded'} with 12.7 <= lat <= 13.3 and 77.3 <= lon <= 77.9 (in tenths:
\* 127..133, 773..779); it returns null when the request is rejected (error,
\* timeout, unparseable body), when the result list is empty and when the
\* first result lies outside the box, and the first result otherwise.
C20_NullOrInBox ==
    \A k \in GeoClients :
        (calls[k].pc = "done" /\ calls[k].reqs > 0) =>
            LET resp == calls[k].resp
                res == calls[k].result
                hit == /\ resp.kind = "ok"
                       /\ Len(resp.results) > 0
                       /\ resp.results[1].lat >= 127 /\ resp.results[1].lat <= 133
                       /\ resp.results[1].lon >= 773 /\ resp.results[1].lon <= 779
            IN  IF hit
                THEN res = [lat |-> resp.results[1].lat, lon |-> resp.results[1].lon,
                            displayName |-> resp.results[1].display_name,
                            source |-> "geocoded"]
                ELSE res = NoCoords

\* One call returned null for a result outside the box, another a result.
C20_Witness ==
    \E k, j \in GeoClients :
        /\ calls[k].pc = "done" /\ calls[k].resp.kind = "ok"
        /\ Len(calls[k].resp.results) > 0 /\ calls[k].result = NoCoords
        /\ calls[j].pc = "done" /\ calls[j].result # NoCoords

\* ----------------------------------------------------------------------- C21
\* The highest-priority pattern the text has a match of, 0 for none.  The
\* categories in priority order, a segment of each as a reader writes it:
PatternOf(seg) ==
    CASE seg.kind = "prefix" -> 1
      [] seg.kind = "url" -> 2
      [] seg.kind = "degree" -> 3
      [] seg.kind \in {"plain", "pin"} /\ PlainLat(seg.lat) /\ PlainLon(seg.lon) -> 4
      [] seg.kind = "pin" -> 5
      [] OTHER -> 0

\* The result when the first matching pattern wins: the coordinates of the
\* leftmost match of the highest-priority pattern that matches, when in the box.
FirstMatchWins(txt) ==
    LET ks == {PatternOf(txt[i]) : i \in 1..Len(txt)} \ {0}
    IN  IF ks = {} THEN NoCoords
        ELSE LET k == CHOOSE x \in ks : \A y \in ks : x <= y
                 i == CHOOSE x \in 1..Len(txt) :
                        /\ PatternOf(txt[x]) = k
                        /\ \A y \in 1..Len(txt) : PatternOf(txt[y]) = k => x <= y
                 lat == parseFloat(txt[i].lat)
                 lon == parseFloat(txt[i].lon)
             IN  IF lat \notin {NaN, 0} /\ lon \notin {NaN, 0} /\ InBounds(lat, lon)
                 THEN [lat |-> lat, lon |-> lon]
                 ELSE NoCoords

\* The text is written with the characters of the five categories only.
PlainlyWritten(txt) ==
    \A i \in 1..Len(txt) : txt[i].kind \notin {"degreeC2", "pinF0"}

\* C21: the five patterns are tried in the order prefix, map URL,
\* degree-annotated, bare high-precision pair, pin marker, and the first one
\* that matches decides the result.
C21_FirstMatchWins ==
    (parsed # NotCalled /\ PlainlyWritten(text)) => parsed = FirstMatchWins(text)

OnePostPerId ==
    \A i, j \in 1..Len(postTable) : postTable[i].id = postTable[j].id => i = j

\* C23: savePosts for an id that is stored adds no row, and leaves text,
\* created_at and processing_status of the stored row (and every other row) as
\* they were; there is one row per id in every state.
C23_IngestIdempotent ==
    /\ []OnePostPerId
    /\ [][(storeCall'.op = "savePosts" /\ storeCall'.n = storeCall.n + 1
                                       /\ HasPost(postTable, storeCall'.id)) =>
            /\ Len(postTable') = Len(postTable)
            /\ \A i \in 1..Len(postTable) :
                /\ postTable'[i].id = postTable[i].id
                /\ postTable'[i].text = postTable[i].text
                /\ postTable'[i].created_at = postTable[i].created_at
                /\ postTable'[i].processing_status = postTable[i].processing_status
                /\ postTable[i].id # storeCall'.id => postTable'[i] = postTable[i]]_vars

\* A post that was marked mapped has been ingested again.
C23_Witness ==
    /\ storeCall.op = "savePosts" /\ storeCall.existed
    /\ \E i \in 1..Len(postTable) :
        /\ postTable[i].id = storeCall.id
        /\ postTable[i].processing_status = "processed_mapped"

\* ----------------------------------------------------------------------- C24
\* A locations row without its timestamp.
Claim(row) ==
    [post_id |-> row.post_id, coordinates |-> row.coordinates,
     extracted_location |-> row.extracted_location]
Claims(rows) == [i \in 1..Len(rows) |-> Claim(rows[i])]

RowsOf(rows, postId) == {i \in 1..Len(rows) : rows[i].post_id = postId}

\* C24: there is at most one locations row per post in every state; saving an
\* item for a post that has a row overwrites coordinates and extracted_location
\* of that row and adds none, and saving the item again an hour later changes
\* no row but for its timestamp.
C24_OneLocationPerPost ==
    /\ \A id \in TableIds : Cardinality(RowsOf(locTable, id)) <= 1
    /\ \A item \in LocationItems :
        LET once == UpsertLocation(locTable, item.id, item.coordinates,
                                   item.extractedLocation, now)
            twice == UpsertLocation(once, item.id, item.coordinates,
                                    item.extractedLocation, now + TickMs)
        IN  /\ Len(once) = Len(locTable) + (IF HasLocation(locTable, item.id) THEN 0 ELSE 1)
            /\ \A i \in RowsOf(once, item.id) :
                /\ once[i].coordinates = item.coordinates
                /\ once[i].extracted_location = item.extractedLocation
            /\ \A i \in 1..Len(locTable) :
                locTable[i].post_id # item.id => once[i] = locTable[i]
            /\ Claims(twice) = Claims(once)

\* The row that ingestion wrote for a post was overwritten by saveLocations.
C24_Witness ==
    /\ storeCall.op = "saveLocations" /\ storeCall.existed
    /\ \E i \in 1..Len(locTable), j \in 1..Len(postTable) :
        /\ locTable[i].post_id = storeCall.id
        /\ postTable[j].id = storeCall.id
        /\ postTable[j].text = tCoords
        /\ locTable[i].coordinates.source = "geocoded"
        /\ Cardinality(RowsOf(locTable, storeCall.id)) = 1

\* ----------------------------------------------------------------------- C25
\* C25: a post that is marked 'processed_no_issue' has no locations row.
C25_NoLocationForNoIssue ==
    \A id \in PostIds : posts[id] = "processed_no_issue" => locations[id] = NoRow

\* ----------------------------------------------------------------------- C26
\* The invocation is in its for loop over the classified posts.
Finalizing(c) ==
    inv[c].pc \in {"finalize", "geocode", "saveLocations", "throttle",
                   "markPostAsProcessed"}

ParseFails ==
    /\ inv[Direct].pc = "generateContent"
    /\ inv'[Direct].pc = "analyzed"
    /\ inv'[Direct].queue[1].origin = "unparseable"

\* C27: a response without a well-formed JSON array makes analyzeBatch return
\* at once (no exception, no retry, no further request), with the quota flag
\* as it was and, for every post of the batch, isIssue false and not skipped.
C27_ParseFailureDegrades ==
    [][ParseFails =>
        /\ UNCHANGED <<quotaExhausted, quotaResetTime>>
        /\ inv'[Direct].aiReqs = inv[Direct].aiReqs
        /\ inv'[Direct].delays = inv[Direct].delays
        /\ Len(inv'[Direct].queue) = Len(inv[Direct].pendingPosts)
        /\ \A k \in 1..Len(inv[Direct].pendingPosts) :
            /\ inv'[Direct].queue[k].id = inv[Direct].pendingPosts[k]
            /\ ~inv'[Direct].queue[k].isIssue
            /\ ~inv'[Direct].queue[k].skipped
            /\ inv'[Direct].queue[k].location = NullStr]_vars

\* The direct call of a batch of two returned the degraded result after one
\* request.
C27_Witness ==
    /\ aiRet.returned
    /\ Len(aiRet.tweets) = 2 /\ Len(aiRet.results) = 2
    /\ aiRet.results[1].origin = "unparseable"
    /\ aiRet.aiReqs = 1 /\ aiRet.delays = 0
    /\ ~quotaExhausted

\* ----------------------------------------------------------------------- C28
\* The extracted location stands for no location: it is empty, the bare region
\* name, or the token none.
NoLocationToken(raw) ==
    \/ raw = NullStr
    \/ raw = <<>>
    \/ ToLowerCase(Trim(raw)) = sLowBangalore
    \/ ToLowerCase(Trim(raw)) = sLowNone

MentionsRegion(raw) ==
    Includes(ToLowerCase(raw), sLowBangalore) \/ Includes(ToLowerCase(raw), sLowBengaluru)

\* C28: a location that is empty, the bare region name or the token none
\* becomes null, and a post with it is not geocoded; any other location gets
\* ', Bangalore' appended when it mentions neither bangalore nor bengaluru and
\* is returned as it is when it mentions one.
C28_Sanitized ==
    sanitized # NotSanitized =>
        IF NoLocationToken(rawLocation)
        THEN /\ sanitized = NullStr
             /\ ~IssueWithLocation([isIssue |-> TRUE, location |-> sanitized])
        ELSE IF MentionsRegion(rawLocation)
        THEN sanitized = rawLocation
        ELSE sanitized = rawLocation \o sCommaBangalore

\* ----------------------------------------------------------------------- C30
\* The delay, in milliseconds, that each message of DelayMessages names
\* (-1: it names none).
NamedDelay(errorMsg) ==
    CASE errorMsg = mRetry7 -> 7000
      [] errorMsg = mRetry7h -> 7500
      [] errorMsg = mRetry17 -> 17000
      [] errorMsg = mRetryQ -> 250
      [] OTHER -> 0 - 1

\* C30: the delay before retry k = retryCount + 1 is the delay the message
\* names plus 1000 ms, and k x 10000 ms when it names none: 10 s, 20 s, 30 s,
\* each longer than the one before.
C30_BackoffDelay ==
    /\ retryDelay # NoDelay =>
        /\ retryArgs.retryCount + 1 \in 1..maxRetries
        /\ IF NamedDelay(retryArgs.errorMsg) >= 0
           THEN retryDelay = NamedDelay(retryArgs.errorMsg) + 1000
           ELSE retryDelay = (retryArgs.retryCount + 1) * 10000
    /\ \A k \in 1..maxRetries :
        /\ RetryDelay(m429, k - 1) = k * 10000
        /\ k > 1 => RetryDelay(m429, k - 2) < RetryDelay(m429, k - 1)

\* The third retry of a failure whose message names no delay waits 30 s.
C30_Witness ==
    /\ retryArgs.errorMsg = mRetryNone /\ retryArgs.retryCount = 2
    /\ retryDelay = 30000

\* ----------------------------------------------------------------------- C29
\* C29: the requests of sequential analyzeBatch calls on one instance, retries
\* included, are issued at least minInterval (5000 ms) apart, whatever the
\* size of the batch.
C29_GateSpacing ==
    \A i, j \in 1..Len(aiRequests) :
        i < j => aiRequests[j] - aiRequests[i] >= aiMinInterval

\* A retry whose backoff (1250 ms) was shorter than minInterval was held by the
\* gate until 5000 ms after the request before it.
C29_Witness ==
    /\ Len(aiRequests) >= 2
    /\ aiCall.pc = "generateContent" /\ aiCall.retryCount = 1 /\ aiCall.waited
    /\ aiRequests[2] - aiRequests[1] = aiMinInterval

\* ----------------------------------------------------------------------- C31
\* The pattern's own match in the text, as the code's regular expression finds
\* it, is a pair inside the bounding box.
InBoxCandidate(k, txt) ==
    /\ Match(k, txt) # NoMatch
    /\ ValidCoordinates(parseFloat(Match(k, txt).lat), parseFloat(Match(k, txt).lon))

\* C31: an out-of-box candidate of an earlier pattern is rejected and the next
\* pattern is tried; parseCoordinates returns null only if none of the five
\* patterns yields a candidate inside the box.
C31_FallsThrough ==
    (parsed # NotCalled /\ parsed = NoCoords) =>
        \A k \in 1..5 : ~InBoxCandidate(k, text)

\* ----------------------------------------------------------------------- C32
\* C32: geocodeBatch handles the names one after the other, a lookup being
\* issued only when no other is in flight and every earlier position has its
\* result; the list it returns has the length of its input and position j holds
\* the result for input j: null where the input is null or empty and where
\* the lookup missed, the coordinates where it hit.
C32_BatchInOrder ==
    /\ Len(geoBatch.results) = Len(geoBatch.lookups)
    /\ Len(geoBatch.results) <= Len(geoBatch.locations)
    /\ geoBatch.pc = "returned" => Len(geoBatch.results) = Len(geoBatch.locations)
    /\ calls["c1"].pc # "idle" =>
          /\ geoBatch.pc = "await"
          /\ calls["c1"].input = geoBatch.locations[Len(geoBatch.results) + 1]
          /\ calls["c1"].reqs <= 1
    /\ \A j \in 1..Len(geoBatch.results) :
          LET l == geoBatch.lookups[j] IN
          /\ l.input = geoBatch.locations[j]
          /\ Blank(l.input) => (l.reqs = 0 /\ geoBatch.results[j] = NoCoords)
          /\ l.input \in {NullStr, <<>>} => ~l.called
          /\ l.outcome # "hit" => geoBatch.results[j] = NoCoords
          /\ l.outcome = "hit" =>
                /\ geoBatch.results[j] # NoCoords
                /\ InBounds(geoBatch.results[j].lat, geoBatch.results[j].lon)

\* A list of a null and a name returned: null for the null, the coordinates of
\* the hit for the name, after one request.
C32_Witness ==
    /\ geoBatch.pc = "returned"
    /\ geoBatch.locations = <<NullStr, sMGRoad>>
    /\ geoBatch.results[1] = NoCoords
    /\ geoBatch.results[2] # NoCoords
    /\ geoBatch.lookups[2].reqs = 1

\* ----------------------------------------------------------------------- C33
\* The cycle that completed last: the processQueue call that returned last got
\* past both guards (it set lastCycleTime) and no cycle is in flight.
LastCycleCompleted ==
    /\ ret.returned
    /\ ret.reason \in {"none", "no_pending", "quota_exhausted_mid_cycle"}
    /\ ~isProcessing

\* C33: getStatus() reports the processed count and the timestamp of the same,
\* most recently completed cycle: once a cycle has returned, whether it ran to
\* its end, was aborted by an exception, was stopped by quota exhaustion or
\* found no pending posts, lastProcessedCount is the number of posts that
\* cycle processed and lastCycleTime is the time that cycle started.
C33_StatusOfLastCycle ==
    LastCycleCompleted =>
        /\ lastCycleTime # NoTime
        /\ lastProcessedCount = ret.processed

\* ----------------------------------------------------------------------- C34
\* The posts of the batch whose status the cycle in flight has marked so far.
MarkedBy(c) ==
    {k \in 1..Len(inv[c].pendingPosts) :
        k <= Len(inv[c].pendingPosts) - Len(inv[c].queue)}

C35_MappedHasLocation ==
    \A id \in PostIds :
        posts[id] = "processed_mapped" => locations[id] # NoRow

\* ----------------------------------------------------------------------- C36
\* C36: with the classifier disabled (no API key) analyzeBatch returns
\* isIssue: false, not tagged skipped, for every post and issues no request,
\* and the quota guard never pauses processQueue; a cycle therefore issues no
\* classifier request, no geocode request and no Location write, marks
\* processed_no_issue each post it finalizes, and at the end of its loop has
\* marked every post it fetched.
C36_DisabledClassifier ==
    ~enabled =>
        /\ ~quotaExhausted
        /\ \A i \in Invocations :
            /\ inv[i].pc \notin {"generateContent", "backoff", "geocode",
                                 "saveLocations", "throttle"}
            /\ inv[i].aiReqs = 0 /\ inv[i].geoReqs = 0 /\ ~inv[i].usedAi
            /\ inv[i].mappedCount = 0 /\ ~inv[i].locationSaved
            /\ \A k \in 1..Len(inv[i].queue) :
                  ~inv[i].queue[k].isIssue /\ ~inv[i].queue[k].skipped
        /\ \A c \in Callers :
            inv[c].pc \in {"finalize", "markPostAsProcessed"} =>
                /\ Len(inv[c].queue) + inv[c].processedCount = Len(inv[c].pendingPosts)
                /\ inv[c].writes \in {inv[c].processedCount, inv[c].processedCount + 1}
                /\ \A k \in MarkedBy(c) :
                      posts[inv[c].pendingPosts[k]] = "processed_no_issue"
        /\ \A id \in PostIds : posts[id] # "processed_mapped"
        /\ ret.returned =>
            /\ ret.reason \notin {"quota_exhausted", "quota_exhausted_mid_cycle"}
            /\ ~ret.usedAi /\ ret.geoReqs = 0 /\ ret.mapped = 0
            /\ ret.writes \in {ret.processed, ret.processed + 1}
        /\ aiRet.returned =>
            /\ aiRet.aiReqs = 0
            /\ \A k \in 1..Len(aiRet.results) :
                  ~aiRet.results[k].isIssue /\ ~aiRet.results[k].skipped

\* With the classifier disabled a cycle fetched two pending posts and returned
\* after it marked both processed_no_issue.
C36_Witness ==
    /\ ~enabled
    /\ ret.returned /\ ret.reason = "none" /\ ~ret.skipped
    /\ ret.fetched = 2 /\ ret.processed = 2
    /\ \A id \in PostIds : posts[id] = "processed_no_issue"

\* ----------------------------------------------------------------------- C37
\* The message matches the hard daily-quota signature and the transient one.
MatchesBoth(msg) ==
    /\ HardQuotaSignature(msg)
    /\ Includes(msg, <<"4","2","9">>) \/ Includes(msg, <<"q","u","o","t","a">>)

\* C37: an upstream error whose message matches both the hard daily-quota
\* signature and the transient signature ('429' or 'quota') is handled as hard
\* quota exhaustion on the first attempt and on every retry attempt: the
\* quota flag is set, the batch is returned skipped, and no retry follows.
C37_HardQuotaWins ==
    [][\A i \in Invocations :
        \A errorMsg \in {m \in ErrorMessages : MatchesBoth(m)} :
            (/\ inv[i].pc = "generateContent"
             /\ inv'[i].pc # "generateContent"
             /\ inv'[i].lastError = errorMsg)
            => /\ inv[i].retryCount \in 0..maxRetries
               /\ quotaExhausted'
               /\ inv'[i].pc = "analyzed"
               /\ inv'[i].delays = inv[i].delays
               /\ inv'[i].aiReqs = inv[i].aiReqs
               /\ \A k \in 1..Len(inv'[i].queue) : inv'[i].queue[k].skipped]_vars

\* The second request of a call (a retry) failed with 'exceeded your current
\* quota', which holds 'quota': the call returned skipped after one backoff.
C37_Witness ==
    /\ inv[Direct].pc = "analyzed"
    /\ inv[Direct].lastError = mExceeded
    /\ inv[Direct].aiReqs = 2 /\ inv[Direct].delays = 1
    /\ quotaExhausted
    /\ \A k \in 1..Len(inv[Direct].queue) : inv[Direct].queue[k].skipped

\* ----------------------------------------------------------------------- C38
\* The items of the call are in the tables: every post has its row, with a
\* location row when it has coordinates, every location item has its row.
ItemsVisible ==
    \A j \in 1..Len(txn.arg.items) :
        LET item == txn.arg.items[j] IN
        IF txn.op = "savePosts"
        THEN /\ HasPost(postTable, item.id)
             /\ item.coordinates # NoCoords => HasLocation(locTable, item.id)
        ELSE HasLocation(locTable, item.id)

\* C38: savePosts and saveLocations are all-or-nothing.  While a call is inside
\* its transaction and after a call threw, the Store is as it was when the
\* call was made: none of its items, those written before the failure
\* included, is visible.  A call that returned made all its items visible and
\* returned their number.
C38_AllOrNothing ==
    /\ txn.pc \in {"loop", "catch", "thrown"} =>
          /\ postTable = txn.beforePosts
          /\ locTable = txn.beforeLocs
    /\ txn.pc = "returned" =>
          /\ txn.arg.kind = "array"
          /\ txn.count = Len(txn.arg.items)
          /\ ItemsVisible
    /\ txn.pc = "catch" => txn.k <= Len(txn.arg.items)

\* savePosts threw after the statements of its first post, a new post with
\* coordinates, had been made: neither the post nor its location is in the Store.
C38_Witness ==
    /\ txn.pc = "thrown" /\ txn.op = "savePosts" /\ txn.k = 1
    /\ Len(txn.arg.items) = 2
    /\ HasPost(txn.posts, txn.arg.items[1].id)
    /\ HasLocation(txn.locs, txn.arg.items[1].id)
    /\ ~HasPost(postTable, txn.arg.items[1].id)
    /\ ~HasLocation(locTable, txn.arg.items[1].id)

\* ----------------------------------------------------------------------- C39
\* The tweets a run fetched, whichever way it passed them to savePosts.
FetchedTweets ==
    IF txn.arg.kind = "array" THEN txn.arg.items
    ELSE txn.arg.withCoords \o txn.arg.missingCoords

\* The post is stored, a post that was not there before with status 'pending'.
Stored(post) ==
    /\ HasPost(postTable, post.id)
    /\ ~HasPost(txn.beforePosts, post.id) =>
          \E i \in 1..Len(postTable) :
              postTable[i].id = post.id /\ postTable[i].processing_status = "pending"

\* C39: a runIngestion() run that fetched N >= 1 new tweets stores them: when
\* it is over every fetched tweet is a Post of the Store, a new one with
\* status 'pending', and the run reports N saved posts; it does not end in its
\* error path.
C39_IngestionStores ==
    (/\ txn.caller = "runIngestion"
     /\ txn.pc \in {"returned", "thrown"}
     /\ Len(FetchedTweets) >= 1)
    => /\ txn.pc = "returned"
       /\ txn.count = Len(FetchedTweets)
       /\ \A j \in 1..Len(FetchedTweets) : Stored(FetchedTweets[j])

\* The same for the fetchTweets script, which passes savePosts an array: a run
\* that returned stored every tweet it fetched.
ScriptStores ==
    (/\ txn.caller = "fetchTweets"
     /\ txn.pc = "returned")
    => /\ txn.count = Len(FetchedTweets)
       /\ \A j \in 1..Len(FetchedTweets) : Stored(FetchedTweets[j])

TypeOK ==
    /\ now \in 0..(MaxTicks * TickMs)
    /\ \A id \in PostIds : posts[id] \in Statuses \cup {"absent"}
    /\ isProcessing \in BOOLEAN

====
